---- MODULE Spec2Model ----
(***************************************************************************)
(* Model of the Azure Table SQL backend (crates/azure_table):              *)
(*   - ExecPhrase::parse / entity_to_json   (src/sql/exec.rs)              *)
(*   - QueryPhrases::query / odata, parse / convert (src/sql.rs)           *)
(* Statement text is modelled as TLA+ strings (sequences of ASCII          *)
(* characters); byte offsets are 0-based as in the Rust source, and a      *)
(* missing Option<usize> offset is written -1.                             *)
(***************************************************************************)
EXTENDS Integers, Sequences, FiniteSets, TLC

VARIABLES op, in, out, pc

vars == <<op, in, out, pc>>

(***************************************************************************)
(* Bounds of the model.                                                    *)
(***************************************************************************)
MaxCols == 3
MaxConds == 3
MaxTokens == 3
MaxParams == 10
MaxBytes == 2

(***************************************************************************)
(* str primitives of the Rust standard library, on ASCII text.             *)
(***************************************************************************)
Min(S) == CHOOSE x \in S : \A y \in S : x <= y
Max(S) == CHOOSE x \in S : \A y \in S : x >= y

LowerLetters == "abcdefghijklmnopqrstuvwxyz"
UpperLetters == "ABCDEFGHIJKLMNOPQRSTUVWXYZ"
Digits == "0123456789"

\* s[i..i+1] for a 0-based byte offset i
CharAt(s, i) == SubSeq(s, i + 1, i + 1)

\* &s[a..b] (0-based, end exclusive); the caller checks SliceOk first
Slice(s, a, b) == SubSeq(s, a + 1, b)

\* &s[a..b] panics unless a <= b <= len
SliceOk(s, a, b) == a >= 0 /\ a <= b /\ b <= Len(s)

IndexIn(alphabet, c) ==
    LET hits == {i \in 1..Len(alphabet) : SubSeq(alphabet, i, i) = c}
    IN IF hits = {} THEN 0 ELSE Min(hits)

to_uppercase_char(c) ==
    LET i == IndexIn(LowerLetters, c)
    IN IF i = 0 THEN c ELSE SubSeq(UpperLetters, i, i)

RECURSIVE to_uppercase(_)
to_uppercase(s) ==
    IF Len(s) = 0 THEN ""
    ELSE to_uppercase_char(SubSeq(s, 1, 1)) \o to_uppercase(SubSeq(s, 2, Len(s)))

\* does pat occur in s at 0-based offset i
MatchAt(s, pat, i) ==
    /\ i >= 0
    /\ i + Len(pat) <= Len(s)
    /\ SubSeq(s, i + 1, i + Len(pat)) = pat

\* str::find from offset `from`: the first match at or after it, or -1
FindFrom(s, pat, from) ==
    LET hits == {i \in from..(Len(s) - Len(pat)) : MatchAt(s, pat, i)}
    IN IF hits = {} THEN -1 ELSE Min(hits)

find(s, pat) == FindFrom(s, pat, 0)

rfind(s, pat) ==
    LET hits == {i \in 0..(Len(s) - Len(pat)) : MatchAt(s, pat, i)}
    IN IF hits = {} THEN -1 ELSE Max(hits)

contains(s, pat) == find(s, pat) # -1

starts_with(s, pat) == MatchAt(s, pat, 0)

ends_with(s, pat) == MatchAt(s, pat, Len(s) - Len(pat))

IsSpace(c) == c = " "

RECURSIVE trim_start(_)
trim_start(s) ==
    IF Len(s) > 0 /\ IsSpace(SubSeq(s, 1, 1))
    THEN trim_start(SubSeq(s, 2, Len(s)))
    ELSE s

RECURSIVE trim_end(_)
trim_end(s) ==
    IF Len(s) > 0 /\ IsSpace(SubSeq(s, Len(s), Len(s)))
    THEN trim_end(SubSeq(s, 1, Len(s) - 1))
    ELSE s

trim(s) == trim_end(trim_start(s))

RECURSIVE trim_end_matches(_, _)
trim_end_matches(s, c) ==
    IF Len(s) > 0 /\ SubSeq(s, Len(s), Len(s)) = c
    THEN trim_end_matches(SubSeq(s, 1, Len(s) - 1), c)
    ELSE s

\* str::split(pat): non-overlapping matches, left to right; always at
\* least one piece
RECURSIVE split(_, _)
split(s, pat) ==
    LET p == find(s, pat)
    IN IF p = -1 THEN <<s>>
       ELSE <<Slice(s, 0, p)>> \o split(Slice(s, p + Len(pat), Len(s)), pat)

\* str::replace(from, to): non-overlapping matches, left to right
RECURSIVE replace(_, _, _)
replace(s, from, to) ==
    LET p == find(s, from)
    IN IF p = -1 THEN s
       ELSE Slice(s, 0, p) \o to \o replace(Slice(s, p + Len(from), Len(s)), from, to)

\* str::split_whitespace: maximal runs of non-whitespace
RECURSIVE split_whitespace(_)
split_whitespace(s) ==
    LET t == trim_start(s)
        p == find(t, " ")
    IN IF Len(t) = 0 THEN <<>>
       ELSE IF p = -1 THEN <<t>>
       ELSE <<Slice(t, 0, p)>> \o split_whitespace(Slice(t, p, Len(t)))

\* [&str]::join(sep)
RECURSIVE join(_, _)
join(parts, sep) ==
    IF Len(parts) = 0 THEN ""
    ELSE IF Len(parts) = 1 THEN parts[1]
    ELSE parts[1] \o sep \o join(Tail(parts), sep)

(***************************************************************************)
(* Integers.  TLC's integers are 32 bits wide, so the values of the Rust   *)
(* integer types (i32, i64, u32, u64, usize) are kept as canonical decimal *)
(* numerals: an optional '-' and digits without leading zeros.  This is    *)
(* exactly the text Display prints, and the 32- and 64-bit limits are      *)
(* exact.                                                                  *)
(***************************************************************************)
I32_MIN == "-2147483648"
I32_MAX == "2147483647"
U32_MAX == "4294967295"
I64_MIN == "-9223372036854775808"
I64_MAX == "9223372036854775807"
U64_MAX == "18446744073709551615"
USIZE_MAX == U64_MAX

IsDigits(s) == \A i \in 1..Len(s) : IndexIn(Digits, SubSeq(s, i, i)) # 0

RECURSIVE StripZeros(_)
StripZeros(s) ==
    IF Len(s) > 1 /\ SubSeq(s, 1, 1) = "0" THEN StripZeros(SubSeq(s, 2, Len(s))) ELSE s

\* a < b for canonical magnitudes (digit strings without leading zeros)
MagLess(a, b) ==
    IF Len(a) # Len(b) THEN Len(a) < Len(b)
    ELSE \E i \in 1..Len(a) :
            /\ SubSeq(a, 1, i - 1) = SubSeq(b, 1, i - 1)
            /\ IndexIn(Digits, SubSeq(a, i, i)) < IndexIn(Digits, SubSeq(b, i, i))

IsNeg(a) == Len(a) > 0 /\ SubSeq(a, 1, 1) = "-"
Mag(a) == IF IsNeg(a) THEN SubSeq(a, 2, Len(a)) ELSE a

\* a < b for canonical numerals
NumLess(a, b) ==
    IF IsNeg(a) /\ ~IsNeg(b) THEN TRUE
    ELSE IF ~IsNeg(a) /\ IsNeg(b) THEN FALSE
    ELSE IF IsNeg(a) THEN MagLess(Mag(b), Mag(a))
    ELSE MagLess(a, b)

NumLeq(a, b) == a = b \/ NumLess(a, b)

\* a - 1 for a canonical numeral a >= 1
RECURSIVE MagPred(_)
MagPred(a) ==
    LET last == SubSeq(a, Len(a), Len(a))
        init == SubSeq(a, 1, Len(a) - 1)
        d == IndexIn(Digits, last) - 1
    IN IF d > 0 THEN init \o SubSeq(Digits, d, d)
       ELSE MagPred(init) \o "9"

NumPred(a) == StripZeros(MagPred(a))

\* a + 1 for a canonical numeral a >= 0
RECURSIVE MagSucc(_)
MagSucc(a) ==
    LET last == SubSeq(a, Len(a), Len(a))
        init == SubSeq(a, 1, Len(a) - 1)
        d == IndexIn(Digits, last) - 1
    IN IF Len(a) = 0 THEN "1"
       ELSE IF d < 9 THEN init \o SubSeq(Digits, d + 2, d + 2)
       ELSE MagSucc(init) \o "0"

NumSucc(a) == MagSucc(a)

RECURSIVE NatToString(_)
NatToString(n) ==
    IF n < 10 THEN SubSeq(Digits, n + 1, n + 1)
    ELSE NatToString(n \div 10) \o SubSeq(Digits, (n % 10) + 1, (n % 10) + 1)

\* the numeral of a (small) TLC integer
IntToString(n) == IF n < 0 THEN "-" \o NatToString(-n) ELSE NatToString(n)

\* the TLC integer of a numeral below 10^9
RECURSIVE DigitsValue(_, _)
DigitsValue(s, acc) ==
    IF Len(s) = 0 THEN acc
    ELSE DigitsValue(SubSeq(s, 2, Len(s)), acc * 10 + (IndexIn(Digits, SubSeq(s, 1, 1)) - 1))

NumToInt(a) == IF IsNeg(a) THEN 0 - DigitsValue(Mag(a), 0) ELSE DigitsValue(a, 0)

\* str::parse for an unsigned integer type with maximum max: an optional
\* leading '+', then at least one digit, and the value must fit; the result
\* is the numeral, or "Err"
parse_unsigned(s, max) ==
    LET body == IF starts_with(s, "+") THEN Slice(s, 1, Len(s)) ELSE s
        v == StripZeros(body)
    IN IF Len(body) = 0 \/ ~IsDigits(body) \/ MagLess(max, v) THEN "Err" ELSE v

(***************************************************************************)
(* qwasr_wasi_sql::DataType and Field.  A DataType is a tag and an Option; *)
(* the payload is in n (integers, as numerals), f (floats, counted in      *)
(* halves so that every f32 sample is exactly an f64), s (text), b         *)
(* (booleans) or bytes (binary); the fields a variant does not use keep    *)
(* their default.                                                          *)
(***************************************************************************)
DataType(tag, some, n, f, s, b, bytes) ==
    [tag |-> tag, some |-> some, n |-> n, f |-> f, s |-> s, b |-> b, bytes |-> bytes]

None(tag) == DataType(tag, FALSE, "0", 0, "", FALSE, <<>>)
Int32(n) == DataType("Int32", TRUE, n, 0, "", FALSE, <<>>)
Int64(n) == DataType("Int64", TRUE, n, 0, "", FALSE, <<>>)
Uint32(n) == DataType("Uint32", TRUE, n, 0, "", FALSE, <<>>)
Uint64(n) == DataType("Uint64", TRUE, n, 0, "", FALSE, <<>>)
Float(f) == DataType("Float", TRUE, "0", f, "", FALSE, <<>>)
Double(f) == DataType("Double", TRUE, "0", f, "", FALSE, <<>>)

\* f32 and f64 values are counted in halves (3 is 1.5); the three values
\* that are not finite stand outside the range of the finite samples
NonFinite == [nan |-> 2000001, inf |-> 2000003, neg_inf |-> -2000003]

is_finite(f) == f \notin {NonFinite.nan, NonFinite.inf, NonFinite.neg_inf}
Str(s) == DataType("Str", TRUE, "0", 0, s, FALSE, <<>>)
Boolean(b) == DataType("Boolean", TRUE, "0", 0, "", b, <<>>)
Date(s) == DataType("Date", TRUE, "0", 0, s, FALSE, <<>>)
Time(s) == DataType("Time", TRUE, "0", 0, s, FALSE, <<>>)
Timestamp(s) == DataType("Timestamp", TRUE, "0", 0, s, FALSE, <<>>)
Binary(bytes) == DataType("Binary", TRUE, "0", 0, "", FALSE, bytes)

Field(name, value) == [name |-> name, value |-> value]

(***************************************************************************)
(* anyhow::Result.  Ok(v), Err(msg), or a panic that unwinds out of the    *)
(* call (a slice whose start lies past its end).                           *)
(***************************************************************************)
Ok(v) == [ok |-> TRUE, panic |-> FALSE, msg |-> "", v |-> v]
Err(msg) == [ok |-> FALSE, panic |-> FALSE, msg |-> msg, v |-> <<>>]
Panic == [ok |-> FALSE, panic |-> TRUE, msg |-> "byte index out of range", v |-> <<>>]

\* the least index of seq whose element satisfies P, or 0
FirstIndex(seq, P(_)) ==
    LET hits == {i \in 1..Len(seq) : P(seq[i])}
    IN IF hits = {} THEN 0 ELSE Min(hits)

(***************************************************************************)
(* ExecPhrase (src/crates/azure_table/src/sql/exec.rs)                     *)
(***************************************************************************)

\* Option<usize> as a numeral, "None" when absent: $N gives N - 1
parse_param_placeholder(s) ==
    IF ~starts_with(s, "$") THEN "None"
    ELSE LET n == parse_unsigned(Slice(s, 1, Len(s)), USIZE_MAX)
         IN IF n = "Err" \/ n = "0" THEN "None" ELSE NumPred(n)

\* param_idx >= params.len()
IndexOutOfRange(param_idx, params) == NumLeq(IntToString(Len(params)), param_idx)

\* as ParamAt, but the first parameter whatever the index
ParamAtFirst(params, param_idx) == params[1]

\* params[param_idx]
ParamAt(params, param_idx) == params[NumToInt(param_idx) + 1]

extract_columns(insert_part) ==
    LET open_paren == find(insert_part, "(")
        close_paren == rfind(insert_part, ")")
    IN IF open_paren = -1 \/ close_paren = -1
       THEN Err("INSERT query must specify column names in parentheses")
       ELSE IF ~SliceOk(insert_part, open_paren + 1, close_paren) THEN Panic
       ELSE LET columns_str == Slice(insert_part, open_paren + 1, close_paren)
                pieces == split(columns_str, ",")
            IN Ok([i \in 1..Len(pieces) |-> trim(pieces[i])])

extract_param_placeholders(values_part) ==
    LET open_paren == find(values_part, "(")
        close_paren == rfind(values_part, ")")
    IN IF open_paren = -1 \/ close_paren = -1
       THEN Err("VALUES clause must contain values in parentheses")
       ELSE IF ~SliceOk(values_part, open_paren + 1, close_paren) THEN Panic
       ELSE LET values_str == Slice(values_part, open_paren + 1, close_paren)
                pieces == split(values_str, ",")
                trimmed == [i \in 1..Len(pieces) |-> trim(pieces[i])]
                NotPlaceholder(t) == parse_param_placeholder(t) = "None"
                bad == FirstIndex(trimmed, NotPlaceholder)
            IN IF bad # 0
               THEN Err("VALUES clause must use parameter placeholders (e.g., $1, $2), found: "
                        \o trimmed[bad])
               ELSE Ok([i \in 1..Len(trimmed) |-> parse_param_placeholder(trimmed[i])])

\* as extract_partition_and_row_keys, but any DataType::Str is taken as a key,
\* an absent one as the empty string
extract_keys_any_str(fields, query_type) ==
    LET IsPartition(f) == f.name = "PartitionKey"
        IsRow(f) == f.name = "RowKey"
        p == FirstIndex(fields, IsPartition)
        r == FirstIndex(fields, IsRow)
    IN IF p = 0 THEN Err(query_type \o " query must specify PartitionKey column")
       ELSE IF fields[p].value.tag # "Str" THEN Err("PartitionKey must be a non-null string")
       ELSE IF r = 0 THEN Err(query_type \o " query must specify RowKey column")
       ELSE IF fields[r].value.tag # "Str" THEN Err("RowKey must be a non-null string")
       ELSE Ok([partition |-> fields[p].value.s, row |-> fields[r].value.s])

\* the first field named key whose value is DataType::Str(Some(s))
extract_partition_and_row_keys(fields, query_type) ==
    LET IsPartition(f) == f.name = "PartitionKey"
        IsRow(f) == f.name = "RowKey"
        p == FirstIndex(fields, IsPartition)
        r == FirstIndex(fields, IsRow)
    IN IF p = 0 THEN Err(query_type \o " query must specify PartitionKey column")
       ELSE IF ~(fields[p].value.tag = "Str" /\ fields[p].value.some)
       THEN Err("PartitionKey must be a non-null string")
       ELSE IF r = 0 THEN Err(query_type \o " query must specify RowKey column")
       ELSE IF ~(fields[r].value.tag = "Str" /\ fields[r].value.some)
       THEN Err("RowKey must be a non-null string")
       ELSE Ok([partition |-> fields[p].value.s, row |-> fields[r].value.s])

validate_where_clause_simple(where_fields, query_type) ==
    IF Len(where_fields) > 2
    THEN Err(query_type \o " query has unsupported conditions in WHERE clause - only PartitionKey and RowKey equality conditions are supported")
    ELSE Ok(<<>>)

\* one iteration of the loop of parse_where_clause: "skip" when the part is
\* not `column = $N`, "bail" when N is out of range, else "push"
WherePart(part0, params) ==
    LET part == trim(part0)
        pieces == split(part, "=")
        eq_parts == [i \in 1..Len(pieces) |-> trim(pieces[i])]
        param_idx == parse_param_placeholder(eq_parts[2])
    IN IF Len(eq_parts) # 2 THEN [step |-> "skip"]
       ELSE IF param_idx = "None" THEN [step |-> "skip"]
       ELSE IF IndexOutOfRange(param_idx, params)
       THEN [step |-> "bail",
             msg |-> "Parameter $" \o NumSucc(param_idx) \o " referenced but only "
                     \o IntToString(Len(params)) \o " parameters provided"]
       ELSE [step |-> "push", field |-> Field(eq_parts[1], ParamAt(params, param_idx))]

parse_where_clause(query, query_upper, params) ==
    LET where_pos == find(query_upper, " WHERE ")
    IN IF where_pos = -1 THEN Ok(<<>>)
       ELSE LET filter_str == trim(Slice(query, where_pos + 7, Len(query)))
                parts == split(filter_str, " AND ")
                steps == [i \in 1..Len(parts) |-> WherePart(parts[i], params)]
                IsBail(st) == st.step = "bail"
                IsPush(st) == st.step = "push"
                bad == FirstIndex(steps, IsBail)
                pushed == SelectSeq(steps, IsPush)
            IN IF Len(filter_str) = 0 THEN Err("WHERE clause cannot be empty")
               ELSE IF bad # 0 THEN Err(steps[bad].msg)
               ELSE Ok([i \in 1..Len(pushed) |-> pushed[i].field])

\* the checks parse_update and parse_delete make on the parsed WHERE clause
\* before the two keys are taken from it
CheckedWhere(where_fields, query_type, verb) ==
    IF ~where_fields.ok THEN where_fields
    ELSE IF Len(where_fields.v) = 0
    THEN Err(query_type \o " query must have a non-empty WHERE clause to specify the entity to "
             \o verb)
    ELSE validate_where_clause_simple(where_fields.v, query_type)

\* as KeysOfWhere, but a WHERE clause without a RowKey equality is accepted
KeysOfWherePartitionOnly(where_fields, checked, query_type) ==
    IF ~checked.ok THEN checked
    ELSE IF \A i \in 1..Len(where_fields.v) : where_fields.v[i].name # "RowKey"
    THEN Ok([partition |-> where_fields.v[1].value.s, row |-> ""])
    ELSE extract_partition_and_row_keys(where_fields.v, query_type)

KeysOfWhere(where_fields, checked, query_type) ==
    IF ~checked.ok THEN checked
    ELSE extract_partition_and_row_keys(where_fields.v, query_type)

\* the tail shared by parse_update and parse_delete: the WHERE clause gives
\* the two keys
WhereKeysOf(where_fields, query_type, verb) ==
    KeysOfWhere(where_fields, CheckedWhere(where_fields, query_type, verb), query_type)

WhereKeys(query, query_upper, params, query_type, verb) ==
    IF ~contains(query_upper, " WHERE ")
    THEN Err(query_type \o " query must have a WHERE clause to specify the entity to " \o verb)
    ELSE WhereKeysOf(parse_where_clause(query, query_upper, params), query_type, verb)

\* as Compiled, but the key fields are taken out of the entity
CompiledWithoutKeys(fields, keys) ==
    LET NotKey(f) == f.name \notin {"PartitionKey", "RowKey"}
    IN IF ~keys.ok THEN keys
       ELSE Ok([entity |-> SelectSeq(fields, NotKey), partition |-> keys.v.partition,
                row |-> keys.v.row])

\* `let (partition, row) = ...?;` followed by the Ok((partition, row, fields))
\* that ends parse_insert, parse_update and parse_delete
Compiled(fields, keys) ==
    IF ~keys.ok THEN keys
    ELSE Ok([entity |-> fields, partition |-> keys.v.partition, row |-> keys.v.row])

parse_insert(query, params) ==
    LET query_upper == to_uppercase(query)
        values_pos == find(query_upper, "VALUES")
        columns == extract_columns(Slice(query, 0, values_pos))
        param_indices == extract_param_placeholders(Slice(query, values_pos + 6, Len(query)))
        OutOfRange(idx) == IndexOutOfRange(idx, params)
        bad == FirstIndex(param_indices.v, OutOfRange)
        fields == [i \in 1..Len(columns.v) |->
                      Field(columns.v[i], ParamAt(params, param_indices.v[i]))]
    IN IF values_pos = -1 THEN Err("INSERT query must contain VALUES clause")
       ELSE IF ~columns.ok THEN columns
       ELSE IF ~param_indices.ok THEN param_indices
       ELSE IF Len(columns.v) # Len(param_indices.v)
       THEN Err("number of columns (" \o IntToString(Len(columns.v))
                \o ") does not match number of values ("
                \o IntToString(Len(param_indices.v)) \o ")")
       ELSE IF bad # 0
       THEN Err("parameter $" \o NumSucc(param_indices.v[bad]) \o " referenced but only "
                \o IntToString(Len(params)) \o " parameters provided")
       ELSE Compiled(fields, extract_partition_and_row_keys(fields, "INSERT"))

\* one iteration of the loop over the SET pairs of parse_update
SetPair(pair, params) ==
    LET pieces == split(pair, "=")
        parts == [i \in 1..Len(pieces) |-> trim(pieces[i])]
        param_idx == parse_param_placeholder(parts[2])
    IN IF Len(parts) # 2
       THEN [step |-> "bail", msg |-> "invalid SET clause: expected 'column = value' format"]
       ELSE IF param_idx = "None"
       THEN [step |-> "bail",
             msg |-> "UPDATE SET clause must use parameter placeholders (e.g., $1, $2)"]
       ELSE IF IndexOutOfRange(param_idx, params)
       THEN [step |-> "bail",
             msg |-> "Parameter $" \o NumSucc(param_idx) \o " referenced but only "
                     \o IntToString(Len(params)) \o " parameters provided"]
       ELSE [step |-> "push", field |-> Field(parts[1], ParamAt(params, param_idx))]

parse_update(query, params) ==
    LET query_upper == to_uppercase(query)
        set_pos == find(query_upper, " SET ")
        where_pos == find(query_upper, " WHERE ")
        set_end == IF where_pos = -1 THEN Len(query) ELSE where_pos
        set_part == trim(Slice(query, set_pos + 5, set_end))
        pairs == split(set_part, ",")
        steps == [i \in 1..Len(pairs) |-> SetPair(pairs[i], params)]
        IsBail(st) == st.step = "bail"
        bad == FirstIndex(steps, IsBail)
        fields == [i \in 1..Len(steps) |-> steps[i].field]
    IN IF set_pos = -1 THEN Err("UPDATE query must contain SET clause")
       ELSE IF ~SliceOk(query, set_pos + 5, set_end) THEN Panic
       ELSE IF bad # 0 THEN Err(steps[bad].msg)
       ELSE Compiled(fields, WhereKeys(query, query_upper, params, "UPDATE", "update"))

parse_delete(query, params) ==
    Compiled(<<>>, WhereKeys(query, to_uppercase(query), params, "DELETE", "delete"))

\* ExecPhrase::parse: Ok carries action, partition, row and entity
ExecPhraseOf(action, r) ==
    IF ~r.ok THEN r
    ELSE Ok([action |-> action, partition |-> r.v.partition, row |-> r.v.row,
             entity |-> r.v.entity])

parse_exec(query, params) ==
    LET query_upper == to_uppercase(trim(query))
    IN IF starts_with(query_upper, "INSERT")
       THEN ExecPhraseOf("Insert", parse_insert(query, params))
       ELSE IF starts_with(query_upper, "UPDATE")
       THEN ExecPhraseOf("Update", parse_update(query, params))
       ELSE IF starts_with(query_upper, "DELETE")
       THEN ExecPhraseOf("Delete", parse_delete(query, params))
       ELSE Err("only INSERT, UPDATE, and DELETE queries are supported")

(***************************************************************************)
(* QueryPhrases (src/crates/azure_table/src/sql.rs)                        *)
(***************************************************************************)
Some(v) == [some |-> TRUE, v |-> v]
NoneStr == [some |-> FALSE, v |-> ""]

\* Display for f32/f64 of a value counted in halves: 3 is "1.5", 4 is "2"
FloatToString(f) ==
    LET a == IF f < 0 THEN 0 - f ELSE f
    IN IF f = NonFinite.nan THEN "NaN"
       ELSE IF f = NonFinite.inf THEN "inf"
       ELSE IF f = NonFinite.neg_inf THEN "-inf"
       ELSE (IF f < 0 THEN "-" ELSE "")
            \o NatToString(a \div 2) \o (IF a % 2 = 1 THEN ".5" ELSE "")

\* the literal substitute_params writes for one parameter (not Binary)
ParamLiteral(param) ==
    IF ~param.some THEN "NULL"
    ELSE IF param.tag \in {"Int32", "Int64", "Uint32", "Uint64"} THEN param.n
    ELSE IF param.tag \in {"Float", "Double"} THEN FloatToString(param.f)
    ELSE IF param.tag = "Str" THEN "'" \o replace(param.s, "'", "''") \o "'"
    ELSE IF param.tag = "Boolean" THEN (IF param.b THEN "true" ELSE "false")
    ELSE "'" \o param.s \o "'"

\* the loop of substitute_params from parameter i (0-based) on
RECURSIVE SubstituteFrom(_, _, _)
SubstituteFrom(processed_query, params, i) ==
    IF i >= Len(params) THEN Ok(processed_query)
    ELSE LET placeholder == "$" \o IntToString(i + 1)
             param == params[i + 1]
         IN IF param.tag = "Binary"
            THEN Err("Binary parameters are not supported in query strings")
            ELSE SubstituteFrom(replace(processed_query, placeholder, ParamLiteral(param)),
                                params, i + 1)

substitute_params(query, params) == SubstituteFrom(query, params, 0)

\* the first index j >= i (0-based) with Stop(parts[j]), or parts.len()
ScanUntil(parts, i, Stop(_)) ==
    LET hits == {j \in i..(Len(parts) - 1) : Stop(parts[j + 1])}
    IN IF hits = {} THEN Len(parts) ELSE Min(hits)

\* as ParseTop, but the digits are kept as written
ParseTopVerbatim(s) ==
    IF parse_unsigned(s, U32_MAX) # "Err" THEN Ok("0" \o s)
    ELSE Err("invalid digit found in string")

\* str::parse::<u32> with the message of its ParseIntError
ParseTop(s) ==
    LET body == IF starts_with(s, "+") THEN Slice(s, 1, Len(s)) ELSE s
        n == parse_unsigned(s, U32_MAX)
    IN IF n # "Err" THEN Ok(n)
       ELSE IF Len(body) > 0 /\ IsDigits(body)
       THEN Err("number too large to fit in target type")
       ELSE Err("invalid digit found in string")

\* the while loop of QueryPhrases::query at token i (0-based); st holds the
\* locals select, filter and top
RECURSIVE QueryLoop(_, _, _)
QueryLoop(parts, i, st) ==
    IF i >= Len(parts) THEN Ok(st)
    ELSE LET part_upper == to_uppercase(parts[i + 1])
             IsFrom(t) == to_uppercase(t) = "FROM"
             IsOrderOrJoin(t) == to_uppercase(t) \in {"ORDER", "JOIN"}
         IN IF part_upper = "SELECT"
            THEN LET has_top == i + 1 < Len(parts) /\ to_uppercase(parts[i + 2]) = "TOP"
                     has_num == has_top /\ i + 2 < Len(parts)
                     top == IF has_num THEN ParseTop(parts[i + 3]) ELSE Ok("0")
                     start == IF has_num THEN i + 3 ELSE IF has_top THEN i + 2 ELSE i + 1
                     stop == ScanUntil(parts, start, IsFrom)
                     select_items == SubSeq(parts, start + 1, stop)
                     st1 == IF has_num THEN [st EXCEPT !.top = Some(top.v)] ELSE st
                     st2 == IF Len(select_items) > 0
                            THEN [st1 EXCEPT !.select =
                                     Some(trim_end_matches(join(select_items, " "), ","))]
                            ELSE st1
                 IN IF ~top.ok THEN top ELSE QueryLoop(parts, stop, st2)
            ELSE IF part_upper = "FROM"
            THEN QueryLoop(parts, IF i + 1 < Len(parts) THEN i + 2 ELSE i + 1, st)
            ELSE IF part_upper = "WHERE"
            THEN LET stop == ScanUntil(parts, i + 1, IsOrderOrJoin)
                     filter_parts == SubSeq(parts, i + 2, stop)
                     st1 == IF Len(filter_parts) > 0
                            THEN [st EXCEPT !.filter = Some(join(filter_parts, " "))]
                            ELSE st
                 IN QueryLoop(parts, stop, st1)
            ELSE QueryLoop(parts, i + 1, st)

\* as UnsupportedFeature, but without the ORDER BY check
UnsupportedJoinOnly(query_upper) ==
    IF contains(query_upper, "JOIN") THEN "JOIN clauses are not supported" ELSE ""

\* the textual check for unsupported features, on the uppercased statement
UnsupportedFeature(query_upper) ==
    IF contains(query_upper, "JOIN") THEN "JOIN clauses are not supported"
    ELSE IF contains(query_upper, "ORDER BY") THEN "ORDER BY clauses are not supported"
    ELSE ""

\* QueryPhrases::query: Ok carries select, filter, top
query(q, params) ==
    LET unsupported == UnsupportedFeature(to_uppercase(q))
        processed_query == substitute_params(q, params)
        parts == split_whitespace(processed_query.v)
    IN IF unsupported # "" THEN Err(unsupported)
       ELSE IF ~processed_query.ok THEN processed_query
       ELSE QueryLoop(parts, 0, [select |-> NoneStr, filter |-> NoneStr, top |-> NoneStr])

(***************************************************************************)
(* urlencoding::encode: every byte except the unreserved characters         *)
(* A-Z a-z 0-9 - _ . ~ becomes %XX.                                        *)
(***************************************************************************)
\* the printable ASCII characters in code order: 32 (space) to 95, and
\* 97 to 126 (the grave accent, 96, is not part of the model's alphabet)
AsciiLow == " !\"#$%&'()*+,-./0123456789:;<=>?@ABCDEFGHIJKLMNOPQRSTUVWXYZ[\\]^_"
AsciiHigh == "abcdefghijklmnopqrstuvwxyz{|}~"
HexDigits == "0123456789ABCDEF"
Unreserved == LowerLetters \o UpperLetters \o Digits \o "-_.~"

CharCode(c) ==
    IF IndexIn(AsciiLow, c) # 0 THEN IndexIn(AsciiLow, c) + 31
    ELSE IndexIn(AsciiHigh, c) + 96

EncodeChar(c) ==
    IF IndexIn(Unreserved, c) # 0 THEN c
    ELSE LET code == CharCode(c)
         IN "%" \o SubSeq(HexDigits, (code \div 16) + 1, (code \div 16) + 1)
                \o SubSeq(HexDigits, (code % 16) + 1, (code % 16) + 1)

RECURSIVE encode(_)
encode(s) ==
    IF Len(s) = 0 THEN ""
    ELSE EncodeChar(SubSeq(s, 1, 1)) \o encode(SubSeq(s, 2, Len(s)))

\* the chain of replace calls that turns SQL operators into OData operators
OdataFilter(filter) ==
    replace(replace(replace(replace(replace(replace(replace(replace(replace(replace(
        filter, " = ", " eq "), " != ", " ne "), " <> ", " ne "), " > ", " gt "),
        " >= ", " ge "), " < ", " lt "), " <= ", " le "), " AND ", " and "),
        " OR ", " or "), " NOT ", " not ")

\* as OdataClauses, but $select is pushed for "*" too
OdataClausesWithStar(self) ==
    (IF self.select.some THEN <<"$select=" \o encode(self.select.v)>> ELSE <<>>)
    \o (IF self.filter.some
        THEN <<"$filter=" \o encode(OdataFilter(self.filter.v))>> ELSE <<>>)
    \o (IF self.top.some THEN <<"$top=" \o self.top.v>> ELSE <<>>)

\* the clauses odata pushes, in push order
OdataClauses(self) ==
    (IF self.select.some /\ self.select.v # "*"
     THEN <<"$select=" \o encode(self.select.v)>> ELSE <<>>)
    \o (IF self.filter.some
        THEN <<"$filter=" \o encode(OdataFilter(self.filter.v))>> ELSE <<>>)
    \o (IF self.top.some THEN <<"$top=" \o self.top.v>> ELSE <<>>)

odata(self) == join(OdataClauses(self), "&")

(***************************************************************************)
(* serde_json::Value.  kind is "null", "bool", "int" (a Number holding an  *)
(* integer, as a numeral), "float" (a Number holding an f64, in halves),   *)
(* "string", "array" (items is a sequence) or "object" (items is a map     *)
(* from keys to values).                                                   *)
(***************************************************************************)
Value(kind, b, n, f, s, items) ==
    [kind |-> kind, b |-> b, n |-> n, f |-> f, s |-> s, items |-> items]

JNull == Value("null", FALSE, "0", 0, "", <<>>)
JBool(b) == Value("bool", b, "0", 0, "", <<>>)
JInt(n) == Value("int", FALSE, n, 0, "", <<>>)
JFloat(f) == Value("float", FALSE, "0", f, "", <<>>)
JString(s) == Value("string", FALSE, "0", 0, s, <<>>)
JArray(items) == Value("array", FALSE, "0", 0, "", items)
JObject(map) == Value("object", FALSE, "0", 0, "", map)

\* serde_json::json!(f) of an f64: Number::from_f64 has no Number for a value
\* that is not finite, and the Value is Null then
json_f64(f) == IF is_finite(f) THEN JFloat(f) ELSE JNull

EmptyMap == <<>>

\* serde_json::Map::insert: a later insert of the same key replaces the value
MapInsert(map, k, v) == [x \in (DOMAIN map) \cup {k} |-> IF x = k THEN v ELSE map[x]]

\* as as_i64, but a value that is no i64 reads as 0
as_i64_or_zero(v) ==
    IF v.kind = "int" /\ NumLeq(I64_MIN, v.n) /\ NumLeq(v.n, I64_MAX) THEN Some(v.n)
    ELSE Some("0")

\* Value::as_i64: an integer Number that fits i64
as_i64(v) ==
    IF v.kind = "int" /\ NumLeq(I64_MIN, v.n) /\ NumLeq(v.n, I64_MAX) THEN Some(v.n) ELSE NoneStr

\* Value::as_f64 in halves: any Number (the integer samples are small enough
\* to be exact)
as_f64(v) ==
    IF v.kind = "float" THEN [some |-> TRUE, v |-> v.f]
    ELSE IF v.kind = "int" THEN [some |-> TRUE, v |-> 2 * NumToInt(v.n)]
    ELSE [some |-> FALSE, v |-> 0]

(***************************************************************************)
(* base64ct::Base64: the standard alphabet, padded, strict decoding.       *)
(***************************************************************************)
Base64Alphabet == UpperLetters \o LowerLetters \o Digits \o "+/"

Sextet(n) == SubSeq(Base64Alphabet, n + 1, n + 1)

RECURSIVE encode_string(_)
encode_string(bytes) ==
    IF Len(bytes) = 0 THEN ""
    ELSE IF Len(bytes) = 1
    THEN Sextet(bytes[1] \div 4) \o Sextet((bytes[1] % 4) * 16) \o "=="
    ELSE IF Len(bytes) = 2
    THEN Sextet(bytes[1] \div 4) \o Sextet((bytes[1] % 4) * 16 + bytes[2] \div 16)
         \o Sextet((bytes[2] % 16) * 4) \o "="
    ELSE Sextet(bytes[1] \div 4) \o Sextet((bytes[1] % 4) * 16 + bytes[2] \div 16)
         \o Sextet((bytes[2] % 16) * 4 + bytes[3] \div 64) \o Sextet(bytes[3] % 64)
         \o encode_string(SubSeq(bytes, 4, Len(bytes)))

\* the value of a Base64 character, -1 if it is none
SextetValue(c) == IndexIn(Base64Alphabet, c) - 1

\* the bytes of the 4-character group at the start of s; <<-1>> if invalid.
\* Padding is accepted in the last group only, and unused bits must be zero.
DecodeGroup(s, last) ==
    LET a == SextetValue(SubSeq(s, 1, 1))
        b == SextetValue(SubSeq(s, 2, 2))
        c == SextetValue(SubSeq(s, 3, 3))
        d == SextetValue(SubSeq(s, 4, 4))
    IN IF a = -1 \/ b = -1 THEN <<-1>>
       ELSE IF last /\ SubSeq(s, 3, 4) = "=="
       THEN (IF b % 16 = 0 THEN <<a * 4 + b \div 16>> ELSE <<-1>>)
       ELSE IF c = -1 THEN <<-1>>
       ELSE IF last /\ SubSeq(s, 4, 4) = "="
       THEN (IF c % 4 = 0 THEN <<a * 4 + b \div 16, (b % 16) * 16 + c \div 4>> ELSE <<-1>>)
       ELSE IF d = -1 THEN <<-1>>
       ELSE <<a * 4 + b \div 16, (b % 16) * 16 + c \div 4, (c % 4) * 64 + d>>

RECURSIVE decode_vec(_)
decode_vec(s) ==
    IF Len(s) = 0 THEN Ok(<<>>)
    ELSE IF Len(s) < 4 THEN Err("invalid Base64 encoding")
    ELSE LET group == DecodeGroup(SubSeq(s, 1, 4), Len(s) = 4)
             rest == decode_vec(SubSeq(s, 5, Len(s)))
         IN IF group = <<-1>> THEN Err("invalid Base64 encoding")
            ELSE IF ~rest.ok THEN rest
            ELSE Ok(group \o rest.v)

(***************************************************************************)
(* ExecPhrase::entity_to_json (src/crates/azure_table/src/sql/exec.rs)     *)
(***************************************************************************)
\* as TypeKey, but with another suffix
TypeKeyShort(name) == name \o "@type"

TypeKey(name) == name \o "@odata.type"

\* the body of the loop of entity_to_json for one field: the map after it,
\* or the overflow error of a Uint64
FieldToJson(map, field) ==
    LET v == field.value
        Tagged(json, edm) ==
            Ok(MapInsert(MapInsert(map, field.name, json), TypeKey(field.name), JString(edm)))
        Plain(json) == Ok(MapInsert(map, field.name, json))
    IN IF ~v.some THEN Ok(map)
       ELSE IF v.tag = "Binary" THEN Tagged(JString(encode_string(v.bytes)), "Edm.Binary")
       ELSE IF v.tag = "Boolean" THEN Plain(JBool(v.b))
       ELSE IF v.tag = "Int32" THEN Plain(JInt(v.n))
       ELSE IF v.tag = "Int64" THEN Tagged(JInt(v.n), "Edm.Int64")
       ELSE IF v.tag = "Uint32" THEN Tagged(JInt(v.n), "Edm.Int64")
       ELSE IF v.tag = "Uint64"
       THEN (IF NumLess(I64_MAX, v.n)
             THEN Err("Uint64 value " \o v.n
                      \o " exceeds maximum Int64 value and cannot be stored in Azure Table Storage")
             ELSE Tagged(JInt(v.n), "Edm.Int64"))
       ELSE IF v.tag = "Float" THEN Tagged(json_f64(v.f), "Edm.Double")
       ELSE IF v.tag = "Double" THEN Plain(json_f64(v.f))
       ELSE IF v.tag = "Str" THEN Plain(JString(v.s))
       ELSE Tagged(JString(v.s), "Edm.DateTime")

RECURSIVE EntityLoop(_, _, _)
EntityLoop(map, entity, i) ==
    IF i > Len(entity) THEN Ok(map)
    ELSE LET r == FieldToJson(map, entity[i])
         IN IF ~r.ok THEN r ELSE EntityLoop(r.v, entity, i + 1)

\* Ok(None) for an empty entity, else Ok(Some(Value::Object(map)))
entity_to_json(entity) ==
    IF Len(entity) = 0 THEN Ok([some |-> FALSE, v |-> JNull])
    ELSE LET r == EntityLoop(EmptyMap, entity, 1)
         IN IF ~r.ok THEN r ELSE Ok([some |-> TRUE, v |-> JObject(r.v)])

(***************************************************************************)
(* The unmarshaller: infer_data_type, convert, parse (sql.rs)              *)
(***************************************************************************)
\* as infer_data_type, but an integer is taken for a 64-bit one
infer_data_type_int64(value) ==
    IF value.kind = "bool" THEN "Edm.Boolean"
    ELSE IF value.kind = "float" THEN "Edm.Double"
    ELSE IF value.kind = "int" THEN "Edm.Int64"
    ELSE "Edm.String"

infer_data_type(value) ==
    IF value.kind = "bool" THEN "Edm.Boolean"
    ELSE IF value.kind = "float" THEN "Edm.Double"
    ELSE IF value.kind = "int" THEN "Edm.Int32"
    ELSE "Edm.String"

convert(value, data_type) ==
    LET is_str == value.kind = "string"
        n == as_i64(value)
        f == as_f64(value)
        decoded == decode_vec(value.s)
    IN IF data_type = "Edm.Binary"
       THEN (IF ~is_str THEN Ok(None("Binary"))
             ELSE IF ~decoded.ok THEN decoded
             ELSE Ok(Binary(decoded.v)))
       ELSE IF data_type = "Edm.Boolean"
       THEN Ok(IF value.kind = "bool" THEN Boolean(value.b) ELSE None("Boolean"))
       ELSE IF data_type = "Edm.DateTime"
       THEN Ok(IF is_str THEN Timestamp(value.s) ELSE None("Timestamp"))
       ELSE IF data_type = "Edm.Double"
       THEN Ok(IF f.some THEN Double(f.v) ELSE None("Double"))
       ELSE IF data_type \in {"Edm.String", "Edm.Guid"}
       THEN Ok(IF is_str THEN Str(value.s) ELSE None("Str"))
       ELSE IF data_type = "Edm.Int32"
       THEN (IF ~n.some THEN Ok(None("Int32"))
             ELSE IF NumLeq(I32_MIN, n.v) /\ NumLeq(n.v, I32_MAX) THEN Ok(Int32(n.v))
             ELSE Err("Value " \o n.v \o " out of range for Int32"))
       ELSE IF data_type = "Edm.Int64"
       THEN Ok(IF n.some THEN Int64(n.v) ELSE None("Int64"))
       ELSE Err("unsupported data type: " \o data_type)

\* byte-wise a < b, the order of the keys of a serde_json::Map
RECURSIVE StrLess(_, _)
StrLess(a, b) ==
    IF Len(b) = 0 THEN FALSE
    ELSE IF Len(a) = 0 THEN TRUE
    ELSE IF SubSeq(a, 1, 1) # SubSeq(b, 1, 1)
    THEN CharCode(SubSeq(a, 1, 1)) < CharCode(SubSeq(b, 1, 1))
    ELSE StrLess(SubSeq(a, 2, Len(a)), SubSeq(b, 2, Len(b)))

\* the keys of a map in iteration order
RECURSIVE SortedKeys(_)
SortedKeys(keys) ==
    IF keys = {} THEN <<>>
    ELSE LET least == CHOOSE k \in keys : \A x \in keys \ {k} : StrLess(k, x)
         IN <<least>> \o SortedKeys(keys \ {least})

\* as IsSkippedKey, but Timestamp is taken for a user field
IsSkippedKeyButTimestamp(k) ==
    \/ starts_with(k, "odata.")
    \/ k = "RowKey"
    \/ k = "PartitionKey"
    \/ ends_with(k, "@odata.type")

\* the keys of a wire object that parse skips
IsSkippedKey(k) ==
    \/ starts_with(k, "odata.")
    \/ k = "RowKey"
    \/ k = "PartitionKey"
    \/ k = "Timestamp"
    \/ ends_with(k, "@odata.type")

\* as ResolveType, but a field without a type tag is an error
ResolveTypeRequired(obj, k) ==
    LET type_key == TypeKey(k)
    IN IF type_key \in DOMAIN obj /\ obj[type_key].kind = "string"
       THEN obj[type_key].s
       ELSE "missing @odata.type"

\* as ResolveType, but the sibling tag is not looked at
ResolveTypeInferred(obj, k) == infer_data_type(obj[k])

\* the data type parse resolves for key k: the sibling tag if it is a string,
\* else the inferred type
ResolveType(obj, k) ==
    LET type_key == TypeKey(k)
    IN IF type_key \in DOMAIN obj /\ obj[type_key].kind = "string"
       THEN obj[type_key].s
       ELSE infer_data_type(obj[k])

\* the inner loop of parse over the keys of one entry, from key i on
RECURSIVE FieldsLoop(_, _, _, _)
FieldsLoop(obj, keys, i, fields) ==
    IF i > Len(keys) THEN Ok(fields)
    ELSE LET k == keys[i]
             value == convert(obj[k], ResolveType(obj, k))
         IN IF IsSkippedKey(k) THEN FieldsLoop(obj, keys, i + 1, fields)
            ELSE IF ~value.ok THEN value
            ELSE FieldsLoop(obj, keys, i + 1, Append(fields, Field(k, value.v)))

\* as EntryToRow, but the index is left empty
EntryToRowWithoutIndex(entry) ==
    LET obj == entry.items
        fields == FieldsLoop(obj, SortedKeys(DOMAIN obj), 1, <<>>)
    IN IF entry.kind # "object" THEN Ok([index |-> "", fields |-> <<>>])
       ELSE IF ~fields.ok THEN fields
       ELSE Ok([index |-> "", fields |-> fields.v])

\* the Row of one element of the "value" array
EntryToRow(entry) ==
    LET obj == entry.items
        fields == FieldsLoop(obj, SortedKeys(DOMAIN obj), 1, <<>>)
        index == IF "RowKey" \in DOMAIN obj /\ obj["RowKey"].kind = "string"
                 THEN obj["RowKey"].s ELSE ""
    IN IF entry.kind # "object" THEN Ok([index |-> "", fields |-> <<>>])
       ELSE IF ~fields.ok THEN fields
       ELSE Ok([index |-> index, fields |-> fields.v])

RECURSIVE RowsLoop(_, _, _)
RowsLoop(entries, i, rows) ==
    IF i > Len(entries) THEN Ok(rows)
    ELSE LET row == EntryToRow(entries[i])
         IN IF ~row.ok THEN row ELSE RowsLoop(entries, i + 1, Append(rows, row.v))

\* parse(val): the rows of the response envelope
parse(val) ==
    IF val.kind = "object" /\ "value" \in DOMAIN val.items /\ val.items["value"].kind = "array"
    THEN RowsLoop(val.items["value"].items, 1, <<>>)
    ELSE Ok(<<>>)

(***************************************************************************)
(* auth_header (src/crates/azure_table/src/sql.rs).  HMAC-SHA256 is not     *)
(* computed: the base64 text of a tag is a term over the key and the       *)
(* message, so that equal tags come from equal keys and messages only.     *)
(* HMAC pads a key shorter than its block with zero bytes, so the zero     *)
(* bytes at the end of such a key do not count.                            *)
(***************************************************************************)
RECURSIVE StripTrailingZeros(_)
StripTrailingZeros(bytes) ==
    IF Len(bytes) > 0 /\ bytes[Len(bytes)] = 0
    THEN StripTrailingZeros(SubSeq(bytes, 1, Len(bytes) - 1))
    ELSE bytes

\* Base64::encode_string of Hmac::<Sha256> keyed with key_bytes over message
EncodedHmac(key_bytes, message) ==
    "{HMAC-SHA256 " \o encode_string(StripTrailingZeros(key_bytes)) \o " " \o message \o "}"

\* as StringToSign, but the account name is signed too
StringToSignWithAccount(account_name, date_time, resource_path) ==
    date_time \o "\n" \o account_name \o resource_path

\* the string to sign of SharedKey Lite: Date + "\n" + CanonicalizedResource
StringToSign(account_name, date_time, resource_path) ==
    date_time \o "\n" \o resource_path

auth_header(account_name, account_key, date_time, resource_path) ==
    LET key_bytes == decode_vec(account_key)
    IN IF ~key_bytes.ok THEN key_bytes
       ELSE Ok("SharedKeyLite " \o account_name \o ":"
               \o EncodedHmac(key_bytes.v,
                              StringToSign(account_name, date_time, resource_path)))

(***************************************************************************)
(* into_param (src/crates/postgres/src/sql.rs): the PgType of a parameter. *)
(* The arms of a present Date, Time or Timestamp parse the text with       *)
(* chrono and are outside the model; no call is drawn for them.            *)
(***************************************************************************)
PgType(tag, value) ==
    [tag |-> tag, some |-> value.some, n |-> value.n, f |-> value.f, s |-> value.s,
     b |-> value.b, bytes |-> value.bytes]

\* as i64_try_from, but the bits of the u64 are taken as they are
i64_cast_unchecked(raw) == Ok(raw)

\* i64::try_from(raw) of a u64
i64_try_from(raw) ==
    IF NumLeq(raw, I64_MAX) THEN Ok(raw)
    ELSE Err("out of range integral type conversion attempted")

into_param(value) ==
    LET clamped == i64_try_from(value.n)
    IN IF value.tag = "Int32" THEN Ok(PgType("Int32", value))
       ELSE IF value.tag = "Int64" THEN Ok(PgType("Int64", value))
       ELSE IF value.tag = "Uint32" THEN Ok(PgType("Uint32", value))
       ELSE IF value.tag = "Uint64"
       THEN (IF ~value.some THEN Ok(PgType("Int64", None("Int64")))
             ELSE IF ~clamped.ok
             THEN Err("uint64 value " \o value.n
                      \o " exceeds i64::MAX and cannot be stored: " \o clamped.msg)
             ELSE Ok(PgType("Int64", Int64(clamped.v))))
       ELSE IF value.tag = "Float" THEN Ok(PgType("Float", value))
       ELSE IF value.tag = "Double" THEN Ok(PgType("Double", value))
       ELSE IF value.tag = "Str" THEN Ok(PgType("Text", value))
       ELSE IF value.tag = "Boolean" THEN Ok(PgType("Bool", value))
       ELSE IF value.tag = "Date" THEN Ok(PgType("Date", None("Date")))
       ELSE IF value.tag = "Time" THEN Ok(PgType("Time", None("Time")))
       ELSE IF value.tag = "Timestamp" THEN Ok(PgType("Timestamp", None("Timestamp")))
       ELSE Ok(PgType("Binary", value))

(***************************************************************************)
(* The calls.  A call is drawn in the initial state (op names the entry    *)
(* point, in holds its arguments) and the actions run it: out holds the    *)
(* results and pc the position of the caller.                              *)
(***************************************************************************)
SeqsOfLen(S, lo, hi) == UNION {[1..k -> S] : k \in lo..hi}

Placeholder(n) == "$" \o IntToString(n)

(* ---- statements for ExecPhrase::parse ---- *)
ColNames == {"PartitionKey", "RowKey", "Name"}

\* three assignments of placeholders to the columns of an INSERT
Perm(order, i) ==
    IF order = 1 THEN i
    ELSE IF order = 2 THEN (IF i = 1 THEN 2 ELSE IF i = 2 THEN 1 ELSE i)
    ELSE (i % 3) + 1

\* the conditions of a WHERE clause; name and n describe a `column = $N`
\* equality, name is "" for any other condition
Conds ==
    { [text |-> "PartitionKey = $1", name |-> "PartitionKey", n |-> 1],
      [text |-> "RowKey = $2", name |-> "RowKey", n |-> 2],
      [text |-> "Age = $3", name |-> "Age", n |-> 3],
      [text |-> "Age > $3", name |-> "", n |-> 0],
      [text |-> "Age = 5", name |-> "", n |-> 0] }

KeyConds == {c \in Conds : c.name \in {"PartitionKey", "RowKey"}}

SetClauses ==
    { [text |-> "Name = $3", names |-> <<"Name">>, ns |-> <<3>>],
      [text |-> "Age = $3, RowKey = $2", names |-> <<"Age", "RowKey">>, ns |-> <<3, 2>>],
      [text |-> "Name = $3, Name = $1", names |-> <<"Name", "Name">>, ns |-> <<3, 1>>] }

\* the parameter lists: position 1 and 2 are meant for the keys
ExecParams ==
    { <<Str("p1"), Str("r1"), Int32("30")>>,
      <<None("Str"), Str("r1"), Int32("30")>>,
      <<Int32("7"), Str("r1"), Int32("30")>>,
      <<Str("p1"), None("Str"), Int32("30")>>,
      <<Str("p1"), Int32("7"), Str("v1")>>,
      <<Str("p1"), Str("r1")>> }

CondTexts(conds) == [i \in 1..Len(conds) |-> conds[i].text]

WhereText(conds) ==
    IF Len(conds) = 0 THEN "" ELSE " WHERE " \o join(CondTexts(conds), " AND ")

\* the `column = $N` equalities of a WHERE clause, in order
IsEquality(c) == c.name # ""
Bindings(conds) ==
    LET eqs == SelectSeq(conds, IsEquality)
    IN [i \in 1..Len(eqs) |-> [name |-> eqs[i].name, n |-> eqs[i].n]]

InsertCall(cols, order, params) ==
    [kind |-> "insert",
     query |-> "INSERT INTO t (" \o join(cols, ", ") \o ") VALUES ("
               \o join([i \in 1..Len(cols) |-> Placeholder(Perm(order, i))], ", ") \o ")",
     params |-> params,
     keyfields |-> [i \in 1..Len(cols) |-> [name |-> cols[i], n |-> Perm(order, i)]],
     setfields |-> <<>>,
     conds |-> <<>>]

UpdateCall(set, conds, params) ==
    [kind |-> "update",
     query |-> "UPDATE t SET " \o set.text \o WhereText(conds),
     params |-> params,
     keyfields |-> Bindings(conds),
     setfields |-> [i \in 1..Len(set.names) |-> [name |-> set.names[i], n |-> set.ns[i]]],
     conds |-> conds]

DeleteCall(conds, params) ==
    [kind |-> "delete",
     query |-> "DELETE FROM t" \o WhereText(conds),
     params |-> params,
     keyfields |-> Bindings(conds),
     setfields |-> <<>>,
     conds |-> conds]

\* statements outside the three families
OtherStatements ==
    { "SELECT * FROM t",
      "",
      "INSERT INTO t (PartitionKey, RowKey)",
      "INSERT INTO t (PartitionKey, RowKey) VALUES ($1)",
      "INSERT INTO t (PartitionKey, RowKey) VALUES ($1, 5)",
      "INSERT INTO t (PartitionKey, RowKey) VALUES ($1, $0)",
      "INSERT INTO t PartitionKey, RowKey VALUES ($1, $2)",
      "INSERT INTO t )PartitionKey, RowKey( VALUES ($1, $2)",
      "INSERT INTO t (PartitionKey, RowKey) VALUES )$1, $2(",
      "  insert into t (PartitionKey, RowKey) values ($1, $2)",
      "UPDATE t Name = $3 WHERE PartitionKey = $1 AND RowKey = $2",
      "UPDATE t SET Name = 5 WHERE PartitionKey = $1 AND RowKey = $2",
      "UPDATE t SET Name = $4 WHERE PartitionKey = $1 AND RowKey = $2",
      "UPDATE t SET Name WHERE PartitionKey = $1 AND RowKey = $2",
      "UPDATE t SET WHERE PartitionKey = $1 AND RowKey = $2",
      "UPDATE t WHERE PartitionKey = $1 AND RowKey = $2 SET Name = $3",
      "update t set Name = $3 where PartitionKey = $1 AND RowKey = $2",
      "UPDATE t SET Name = $3 WHERE PartitionKey = $1 and RowKey = $2",
      "DELETE FROM t WHERE ",
      "DELETE FROM t WHERE PartitionKey = $4 AND RowKey = $2",
      "DELETE FROM t WHERE partitionkey = $1 AND rowkey = $2",
      "delete from t where PartitionKey = $1 AND RowKey = $2" }

OtherCall(q, params) ==
    [kind |-> "other", query |-> q, params |-> params,
     keyfields |-> <<>>, setfields |-> <<>>, conds |-> <<>>]

ExecCalls ==
    {InsertCall(cols, order, params) :
        cols \in SeqsOfLen(ColNames, 1, MaxCols), order \in 1..3, params \in ExecParams}
    \cup {UpdateCall(set, conds, params) :
        set \in SetClauses, conds \in SeqsOfLen(Conds, 0, MaxConds), params \in ExecParams}
    \cup {DeleteCall(conds, params) :
        conds \in SeqsOfLen(Conds, 0, MaxConds), params \in ExecParams}
    \cup {OtherCall(q, params) : q \in OtherStatements, params \in ExecParams}

InitExec ==
    /\ op = "ExecPhrase::parse"
    /\ in \in ExecCalls
    /\ out = <<>>
    /\ pc = "ready"

\* ExecPhrase::parse(query, params)
ParseExec ==
    /\ op = "ExecPhrase::parse"
    /\ pc = "ready"
    /\ out' = parse_exec(in.query, in.params)
    /\ pc' = "done"
    /\ UNCHANGED <<op, in>>

NextExec == ParseExec

SpecExec == InitExec /\ [][NextExec]_vars

(***************************************************************************)
(* Properties of ExecPhrase::parse                                         *)
(***************************************************************************)
ExecDone == op = "ExecPhrase::parse" /\ pc = "done"

\* the call is one of the generated INSERT, UPDATE or DELETE statements
InFamily == in.kind \in {"insert", "update", "delete"}

IsPresentStr(param) == param.tag = "Str" /\ param.some

\* key is not the column of any key field of the statement (INSERT columns,
\* WHERE equalities of an UPDATE or DELETE)
Absent(key) == \A i \in 1..Len(in.keyfields) : in.keyfields[i].name # key

\* the placeholder number of the first key field named key
FirstBound(key) ==
    in.keyfields[Min({i \in 1..Len(in.keyfields) : in.keyfields[i].name = key})].n

\* the first key field named key is bound to a supplied parameter
Bound(key) == ~Absent(key) /\ FirstBound(key) <= Len(in.params)

BoundParam(key) == in.params[FirstBound(key)]

\* C1: a compiled statement's partition and row are the present string
\* values of the parameters bound to its PartitionKey and RowKey key fields
\* (the first such field, if a column is listed twice), and a statement
\* whose key is bound to anything but a present string does not compile.
C1_KeysArePresentStrings ==
    (ExecDone /\ InFamily) =>
        /\ out.ok =>
              /\ Bound("PartitionKey") /\ Bound("RowKey")
              /\ BoundParam("PartitionKey") = Str(out.v.partition)
              /\ BoundParam("RowKey") = Str(out.v.row)
        /\ \A key \in {"PartitionKey", "RowKey"} :
              (Bound(key) /\ ~IsPresentStr(BoundParam(key))) => ~out.ok

\* an INSERT binding PartitionKey to $2 compiled with the value of $2
C1_Witness ==
    /\ ExecDone /\ in.kind = "insert" /\ out.ok
    /\ FirstBound("PartitionKey") = 2
    /\ out.v.partition = "r1"

Reserved(name) ==
    name \in {"PartitionKey", "RowKey", "Timestamp"} \/ starts_with(name, "odata.")

\* C2 (as claimed): the entity of a compiled statement holds no field named
\* PartitionKey, RowKey, Timestamp or odata.*
C2_EntityExcludesKeys ==
    (ExecDone /\ out.ok) =>
        \A i \in 1..Len(out.v.entity) : ~Reserved(out.v.entity[i].name)

\* C2 (amended): a compiled DELETE has an empty entity; a compiled UPDATE
\* whose SET clause names no reserved column has no reserved field in its
\* entity; the entity of a compiled INSERT contains the PartitionKey and
\* RowKey fields, with the values carried in partition and row.
C2_EntityFields ==
    (ExecDone /\ InFamily /\ out.ok) =>
        /\ in.kind = "delete" => out.v.entity = <<>>
        /\ (in.kind = "update"
            /\ \A i \in 1..Len(in.setfields) : ~Reserved(in.setfields[i].name))
              => \A i \in 1..Len(out.v.entity) : ~Reserved(out.v.entity[i].name)
        /\ in.kind = "insert" =>
              /\ \E i \in 1..Len(out.v.entity) :
                    out.v.entity[i] = Field("PartitionKey", Str(out.v.partition))
              /\ \E i \in 1..Len(out.v.entity) :
                    out.v.entity[i] = Field("RowKey", Str(out.v.row))

\* a compiled INSERT of three columns
C2_Witness ==
    /\ ExecDone /\ in.kind = "insert" /\ out.ok
    /\ Len(out.v.entity) = 3
    /\ out.v.entity[3].name = "Name"

\* C3: an UPDATE or DELETE whose WHERE clause has a condition other than the
\* equalities on PartitionKey and RowKey does not compile.
C3_ExtraConditionFails ==
    (ExecDone /\ in.kind \in {"update", "delete"}
     /\ \E i \in 1..Len(in.conds) : in.conds[i] \notin KeyConds)
        => ~out.ok

\* every placeholder of the statement is in range and, for UPDATE and
\* DELETE, the WHERE clause has one or two `column = $N` equalities: nothing
\* but a missing or ill-typed key can make the statement fail
ReachesKeyExtraction ==
    /\ \A i \in 1..Len(in.keyfields) : in.keyfields[i].n <= Len(in.params)
    /\ \A i \in 1..Len(in.setfields) : in.setfields[i].n <= Len(in.params)
    /\ in.kind \in {"update", "delete"} => Len(in.keyfields) \in 1..2

\* C4 (as claimed): without WHERE an UPDATE or DELETE fails, and a statement
\* lacking a key among its key fields fails, with an error naming an absent
\* key (required here only of statements with no other defect).
C4_MissingKeyNamed ==
    (ExecDone /\ InFamily) =>
        /\ (in.kind \in {"update", "delete"} /\ in.conds = <<>>) => ~out.ok
        /\ (Absent("PartitionKey") \/ Absent("RowKey")) => ~out.ok
        /\ (ReachesKeyExtraction /\ (Absent("PartitionKey") \/ Absent("RowKey"))) =>
              \E key \in {"PartitionKey", "RowKey"} :
                  Absent(key) /\ contains(out.msg, key)

\* C4 (amended): without WHERE an UPDATE or DELETE fails, and a statement
\* lacking a key among its key fields fails; when nothing else is wrong with
\* the statement the error names PartitionKey if PartitionKey is absent, and
\* names RowKey if only RowKey is absent and PartitionKey is bound to a
\* present string.
C4_MissingKeyFails ==
    (ExecDone /\ InFamily) =>
        /\ (in.kind \in {"update", "delete"} /\ in.conds = <<>>) => ~out.ok
        /\ (Absent("PartitionKey") \/ Absent("RowKey")) => ~out.ok
        /\ (ReachesKeyExtraction /\ Absent("PartitionKey"))
              => contains(out.msg, "PartitionKey")
        /\ (ReachesKeyExtraction /\ ~Absent("PartitionKey") /\ Absent("RowKey")
            /\ IsPresentStr(BoundParam("PartitionKey")))
              => contains(out.msg, "RowKey")

\* a DELETE with the PartitionKey equality only, bound to a present string
C4_Witness ==
    /\ ExecDone /\ in.kind = "delete"
    /\ Len(in.conds) = 1 /\ in.conds[1].name = "PartitionKey"
    /\ IsPresentStr(in.params[1])
    /\ ~out.ok /\ contains(out.msg, "RowKey")

(* ---- entities for entity_to_json and the wire objects made of them ---- *)
FieldNames == {"Name", "RowKey"}

Bytes == {0, 72, 255}

Tags == {"Int32", "Int64", "Uint32", "Uint64", "Float", "Double", "Str", "Boolean",
         "Date", "Time", "Timestamp", "Binary"}

SampleValues ==
    {Int32(n) : n \in {"42", "-1", I32_MIN, I32_MAX}}
    \cup {Int64(n) : n \in {"1000", "2147483648", I64_MIN, I64_MAX}}
    \cup {Uint32(n) : n \in {"7", U32_MAX}}
    \cup {Uint64(n) : n \in {"1000", I64_MAX, "9223372036854775808", U64_MAX}}
    \cup {Float(f) : f \in {3, 4, -1, NonFinite.inf}}
    \cup {Double(f) : f \in {3, 4, 0, NonFinite.nan}}
    \cup {Str(t) : t \in {"", "test", "O'Brien", "SGVsbG8="}}
    \cup {Boolean(b) : b \in BOOLEAN}
    \cup {Date("2026-01-30"), Time("12:00:00"), Timestamp("2026-01-30T12:00:00Z")}
    \cup {Binary(bytes) : bytes \in SeqsOfLen(Bytes, 0, MaxBytes)}
    \cup {None(tag) : tag \in Tags}

\* the second field of the entities of two fields
SecondFields ==
    {Field("Age", Int32("30")), Field("Age", None("Int64")), Field("Name", None("Date")),
     Field("Name", Str("x")), Field("Age", Uint64(U64_MAX)), Field("Age", Double(NonFinite.inf))}

CodecCalls ==
    {[entity |-> <<Field(name, value)>>] : name \in FieldNames, value \in SampleValues}
    \cup {[entity |-> <<Field(name, value), second>>] :
              name \in FieldNames, value \in SampleValues, second \in SecondFields}
    \cup {[entity |-> <<>>]}

\* the parameters of into_param: every sample but a present Date, Time or
\* Timestamp
IntoParamCalls ==
    {[value |-> value] :
        value \in {v \in SampleValues : v.tag \in {"Date", "Time", "Timestamp"} => ~v.some}}

InitCodec ==
    /\ \/ op = "entity_to_json" /\ in \in CodecCalls
       \/ op = "into_param" /\ in \in IntoParamCalls
    /\ out = <<>>
    /\ pc = "ready"

\* ExecPhrase::entity_to_json(&self)
EntityToJson ==
    /\ op = "entity_to_json"
    /\ pc = "ready"
    /\ out' = [json |-> entity_to_json(in.entity)]
    /\ pc' = "marshalled"
    /\ UNCHANGED <<op, in>>

\* the response envelope whose "value" array holds the one entity
Envelope(obj) == JObject([k \in {"value"} |-> JArray(<<obj>>)])

\* parse(&body) of a response that returns the marshalled object
ParseMarshalled ==
    /\ op = "entity_to_json"
    /\ pc = "marshalled"
    /\ out.json.ok /\ out.json.v.some
    /\ out' = [json |-> out.json, rows |-> parse(Envelope(out.json.v.v))]
    /\ pc' = "done"
    /\ UNCHANGED <<op, in>>

\* into_param(&value)
IntoParam ==
    /\ op = "into_param"
    /\ pc = "ready"
    /\ out' = [param |-> into_param(in.value)]
    /\ pc' = "done"
    /\ UNCHANGED <<op, in>>

NextCodec == EntityToJson \/ ParseMarshalled \/ IntoParam

SpecCodec == InitCodec /\ [][NextCodec]_vars

(* ---- response bodies for parse ---- *)
MaxRows == 2

\* the object of a set of <<key, value>> pairs with distinct keys
ObjOf(pairs) ==
    JObject([k \in {p[1] : p \in pairs} |-> (CHOOSE p \in pairs : p[1] = k)[2]])

RowKeyOptions == {{}, {<<"RowKey", JString("r2")>>}, {<<"RowKey", JInt("5")>>}}

SystemOptions ==
    {{}, {<<"odata.etag", JString("W/1")>>, <<"PartitionKey", JString("p1")>>,
          <<"Timestamp", JString("2026-01-30T12:00:00Z")>>}}

NameValues ==
    {JString("John Doe"), JString("SGVsbG8="), JBool(TRUE), JFloat(3), JNull, JArray(<<>>)}
    \cup {JInt(n) : n \in {"42", I32_MIN, I32_MAX, "2147483648", "-2147483649",
                           "9223372036854775808"}}

EdmTags ==
    {"Edm.Binary", "Edm.Boolean", "Edm.DateTime", "Edm.Double", "Edm.String", "Edm.Guid",
     "Edm.Int32", "Edm.Int64"}

\* no type key, a type key of every known tag and of an unknown one, and a
\* type key that is not a string
NameTags ==
    {{}, {<<"Name@odata.type", JInt("1")>>}}
    \cup {{<<"Name@odata.type", JString(t)>>} : t \in EdmTags \cup {"Edm.Foo"}}

\* an integer tagged Edm.Double is drawn only if it is small: the floats of
\* the model are TLC integers, counted in halves
DoubleFits(v, tag) ==
    (tag = {<<"Name@odata.type", JString("Edm.Double")>>} /\ v.kind = "int") => v.n = "42"

UserOptions ==
    {{}, {<<"Age@odata.type", JString("Edm.Int32")>>}}
    \cup {{<<"Name", v>>} \cup tag : <<v, tag>> \in
              {vt \in NameValues \X NameTags : DoubleFits(vt[1], vt[2])}}

Entries ==
    {ObjOf(rk \cup sys \cup user) :
        rk \in RowKeyOptions, sys \in SystemOptions, user \in UserOptions}
    \cup {JInt("7")}

\* the elements that precede the last one of an array
LeadEntries ==
    {ObjOf({<<"RowKey", JString("r1")>>, <<"Name", JString("John Doe")>>,
            <<"Age", JInt("30")>>}),
     ObjOf({<<"Name", JString("x")>>}),
     JInt("7")}

Body(entries) == JObject([k \in {"value"} |-> JArray(entries)])

ParseCalls ==
    {[body |-> Body(lead \o <<last>>)] :
        lead \in SeqsOfLen(LeadEntries, 0, MaxRows - 1), last \in Entries}
    \cup {[body |-> b] : b \in {Body(<<>>), JNull, JObject(EmptyMap),
                                JObject([k \in {"value"} |-> JString("x")])}}

InitParse ==
    /\ op = "parse"
    /\ in \in ParseCalls
    /\ out = <<>>
    /\ pc = "ready"

\* parse(&body)
Parse ==
    /\ op = "parse"
    /\ pc = "ready"
    /\ out' = [rows |-> parse(in.body)]
    /\ pc' = "done"
    /\ UNCHANGED <<op, in>>

NextParse == Parse

SpecParse == InitParse /\ [][NextParse]_vars

(* ---- pairs of calls of auth_header ---- *)
AuthAccounts == {"acct", "other"}

\* account keys: the base64 of no byte, of "Hello", of 0 72 255, of 0 72 and
\* of 0 72 0, and two texts that are not base64
AuthKeys == {"", "SGVsbG8=", "AEj/", "AEg=", "AEgA", "not base64!", "SGVsbG8"}

AuthDates == {"Fri, 30 Jan 2026 12:00:00 GMT", "Fri, 30 Jan 2026 12:00:01 GMT"}

AuthPaths == {"/acct/t()", "/acct/u()"}

AuthArgs ==
    [account : AuthAccounts, key : AuthKeys, date : AuthDates, path : AuthPaths]

InitAuth ==
    /\ op = "auth_header"
    /\ in \in [first : AuthArgs, second : AuthArgs]
    /\ out = <<>>
    /\ pc = "ready"

\* auth_header(account, key, date, path), the first call
AuthFirst ==
    /\ op = "auth_header"
    /\ pc = "ready"
    /\ out' = [first |-> auth_header(in.first.account, in.first.key, in.first.date,
                                     in.first.path)]
    /\ pc' = "first"
    /\ UNCHANGED <<op, in>>

\* the second call
AuthSecond ==
    /\ op = "auth_header"
    /\ pc = "first"
    /\ out' = [first |-> out.first,
               second |-> auth_header(in.second.account, in.second.key, in.second.date,
                                      in.second.path)]
    /\ pc' = "done"
    /\ UNCHANGED <<op, in>>

NextAuth == AuthFirst \/ AuthSecond

SpecAuth == InitAuth /\ [][NextAuth]_vars

(* ---- AzTableConnection::query: the calls made on one connection ---- *)
\* the clock counts half seconds after Fri, 30 Jan 2026 12:00:00 UTC
MaxClock == 2
MaxCalls == 2

\* chrono::Utc::now().format("%a, %d %b %Y %H:%M:%S GMT") at the clock
UtcNowFormatted(clock) ==
    "Fri, 30 Jan 2026 12:00:0" \o NatToString(clock \div 2) \o " GMT"

\* the connection: its ConnectOptions and its table
Connections ==
    [name : {"acct"}, key : {"SGVsbG8=", "not base64!"}, table : {"t"}]

ConnQueries ==
    { [query |-> "SELECT * FROM t", params |-> <<>>],
      [query |-> "SELECT TOP 5 name FROM t WHERE age > $1", params |-> <<Int32("18")>>],
      [query |-> "SELECT TOP x name FROM t", params |-> <<>>] }

\* what comes back: no response, a failure status, or a JSON body
ConnResponses ==
    { [kind |-> "no response", body |-> JNull],
      [kind |-> "status 404", body |-> JNull],
      [kind |-> "success", body |-> Body(<<>>)] }

InitConn ==
    /\ op = "AzTableConnection::query"
    /\ in \in Connections
    /\ out = [clock |-> 0, calls |-> <<>>, requests |-> <<>>]
    /\ pc = "open"

\* time passes
Tick ==
    /\ op = "AzTableConnection::query"
    /\ out.clock < MaxClock
    /\ out' = [out EXCEPT !.clock = @ + 1]
    /\ UNCHANGED <<op, in, pc>>

\* as NewCall, but the timestamp is the one of the first instant
NewCallStaleClock(self, clock, query_, params) ==
    [uri |-> "https://" \o self.name \o ".table.core.windows.net/" \o self.table \o "()",
     now |-> UtcNowFormatted(0),
     resource_path |-> "/" \o self.name \o "/" \o self.table \o "()",
     account_name |-> self.name,
     account_key |-> self.key,
     query |-> query_,
     params |-> params,
     called_at |-> clock,
     stage |-> "created",
     result |-> <<>>]

\* what the future of a call captures: uri, now, resource_path, the account
\* and the arguments; called_at records the instant of the call
NewCall(self, clock, query_, params) ==
    [uri |-> "https://" \o self.name \o ".table.core.windows.net/" \o self.table \o "()",
     now |-> UtcNowFormatted(clock),
     resource_path |-> "/" \o self.name \o "/" \o self.table \o "()",
     account_name |-> self.name,
     account_key |-> self.key,
     query |-> query_,
     params |-> params,
     called_at |-> clock,
     stage |-> "created",
     result |-> <<>>]

\* query(&self, query, params) up to the creation of the future
QueryCall ==
    /\ op = "AzTableConnection::query"
    /\ Len(out.calls) < MaxCalls
    /\ \E q \in ConnQueries :
          out' = [out EXCEPT !.calls = Append(@, NewCall(in, out.clock, q.query, q.params))]
    /\ UNCHANGED <<op, in, pc>>

\* the request of a call; call tells which call issued it
Request(call, i, auth, odata_query) ==
    [full_uri |-> IF odata_query = "" THEN call.uri ELSE call.uri \o "?" \o odata_query,
     x_ms_date |-> call.now,
     x_ms_version |-> "2026-02-06",
     authorization |-> auth,
     accept |-> "application/json;odata=fullmetadata",
     call |-> i]

\* the future of call i as far as the request: the calls with auth and
\* phrases, the results of auth_header and of QueryPhrases::query
PolledCalls(calls, i, auth, phrases) ==
    [calls EXCEPT ![i] =
        IF ~auth.ok THEN [@ EXCEPT !.stage = "done", !.result = auth]
        ELSE IF ~phrases.ok THEN [@ EXCEPT !.stage = "done", !.result = phrases]
        ELSE [@ EXCEPT !.stage = "sent"]]

PolledRequests(requests, call, i, auth, phrases) ==
    IF auth.ok /\ phrases.ok
    THEN Append(requests, Request(call, i, auth.v, odata(phrases.v)))
    ELSE requests

\* the state after the future of call i ran as far as send().await
Polled(state, i, auth, phrases) ==
    [clock |-> state.clock,
     calls |-> PolledCalls(state.calls, i, auth, phrases),
     requests |-> PolledRequests(state.requests, state.calls[i], i, auth, phrases)]

\* the future of call i runs as far as send().await
QuerySend ==
    /\ op = "AzTableConnection::query"
    /\ \E i \in 1..Len(out.calls) :
          /\ out.calls[i].stage = "created"
          /\ out' = Polled(out, i,
                           auth_header(out.calls[i].account_name, out.calls[i].account_key,
                                       out.calls[i].now, out.calls[i].resource_path),
                           query(out.calls[i].query, out.calls[i].params))
    /\ UNCHANGED <<op, in, pc>>

\* the rest of the future, given what came back
ResultOf(response) ==
    IF response.kind = "no response" THEN Err("HTTP request error")
    ELSE IF response.kind # "success" THEN Err("Azure Table query failed")
    ELSE parse(response.body)

\* the future of call i resumes with the response
QueryReceive ==
    /\ op = "AzTableConnection::query"
    /\ \E i \in 1..Len(out.calls), response \in ConnResponses :
          /\ out.calls[i].stage = "sent"
          /\ out' = [out EXCEPT !.calls[i].stage = "done",
                                !.calls[i].result = ResultOf(response)]
    /\ UNCHANGED <<op, in, pc>>

NextConn == Tick \/ QueryCall \/ QuerySend \/ QueryReceive

SpecConn == InitConn /\ [][NextConn]_vars

(***************************************************************************)
(* Properties of the marshaller and the unmarshaller                       *)
(***************************************************************************)
\* a single field with a present value (finite, if it is a Float or a
\* Double) was marshalled and parsed back
RoundTripDone ==
    /\ op = "entity_to_json" /\ pc = "done"
    /\ Len(in.entity) = 1
    /\ in.entity[1].value.some
    /\ is_finite(in.entity[1].value.f)

Widened(value) ==
    IF value.tag \in {"Uint32", "Uint64"} THEN Int64(value.n)
    ELSE IF value.tag = "Float" THEN Double(value.f)
    ELSE IF value.tag \in {"Date", "Time"} THEN Timestamp(value.s)
    ELSE value

TopTexts == {"", "TOP 5 ", "top 007 "}
SelectTexts == {"*", "name"}
TableTexts == {"t", "Joiners"}
\* maxph is the greatest placeholder number of the clause
WhereTexts ==
    { [text |-> "", maxph |-> 0],
      [text |-> " WHERE age > $1", maxph |-> 1],
      [text |-> " WHERE age > $1 AND name = $2", maxph |-> 2],
      [text |-> " where a = $1 OR b = $10", maxph |-> 10],
      [text |-> " WHERE a = $2 AND k = $11", maxph |-> 11],
      [text |-> " WHERE a = $1 order by a", maxph |-> 1],
      [text |-> " WHERE a = $3 Order By a", maxph |-> 3],
      [text |-> " WHERE a = $1 ORDER  BY a", maxph |-> 1],
      [text |-> " WHERE a = $1 JOIN u", maxph |-> 1],
      [text |-> " WHERE a = 'adjoined' AND b = $2", maxph |-> 2],
      [text |-> " WHERE border bY $1", maxph |-> 1] }

\* parameter i of the two parameter lists; the literals hold no '$'
NumberedParam(i) == Int32(IntToString(20 + i))
MixedParam(i) ==
    IF i = 1 THEN Int32("18")
    ELSE IF i = 2 THEN Str("Alice")
    ELSE IF i = 3 THEN Str("John O'Brien")
    ELSE IF i = 4 THEN None("Str")
    ELSE IF i = 5 THEN Boolean(TRUE)
    ELSE IF i = 6 THEN Double(3)
    ELSE IF i = 7 THEN Date("2026-01-29")
    ELSE IF i = 8 THEN Uint64(U64_MAX)
    ELSE IF i = 9 THEN Float(-1)
    ELSE IF i = 10 THEN Int64("-5")
    ELSE IF i = 11 THEN Timestamp("2026-01-30T12:00:00Z")
    ELSE Binary(<<1, 2, 3>>)

QueryParams ==
    {[i \in 1..k |-> NumberedParam(i)] : k \in 0..MaxParams}
    \cup {[i \in 1..k |-> MixedParam(i)] : k \in 0..MaxParams}
    \cup {<<Binary(<<1, 2, 3>>)>>}

QueryCalls ==
    {[query |-> "SELECT " \o top \o sel \o " FROM " \o table \o where.text,
      params |-> params, maxph |-> where.maxph] :
        top \in TopTexts, sel \in SelectTexts, table \in TableTexts,
        where \in WhereTexts, params \in QueryParams}
    \cup {[query |-> q, params |-> <<>>, maxph |-> 0] :
            q \in {"SELECT TOP x name FROM t", "SELECT TOP", "SELECT name, FROM t",
                   "select TOP 4294967296 * from t", "SELECT TOP 4294967295 * FROM",
                   "FROM t WHERE a = 1", ""}}

InitQuery ==
    /\ op = "QueryPhrases::query"
    /\ in \in QueryCalls
    /\ out = <<>>
    /\ pc = "ready"

\* QueryPhrases::query(query, params); processed is the local
\* processed_query, where the unsupported-feature check did not return first
Query ==
    /\ op = "QueryPhrases::query"
    /\ pc = "ready"
    /\ out' = [processed |->
                  IF UnsupportedFeature(to_uppercase(in.query)) # ""
                  THEN Err(UnsupportedFeature(to_uppercase(in.query)))
                  ELSE substitute_params(in.query, in.params),
               phrases |-> query(in.query, in.params)]
    /\ pc' = "compiled"
    /\ UNCHANGED <<op, in>>

\* QueryPhrases::odata(&self) on the compiled query
Odata ==
    /\ op \in {"QueryPhrases::query", "QueryPhrases::odata"}
    /\ pc = "compiled"
    /\ out.phrases.ok
    /\ out' = [processed |-> out.processed, phrases |-> out.phrases,
               odata |-> odata(out.phrases.v)]
    /\ pc' = "rendered"
    /\ UNCHANGED <<op, in>>

NextQuery == Query \/ Odata

SpecQuery == InitQuery /\ [][NextQuery]_vars

(* ---- QueryPhrases values for odata ---- *)
FilterTokens == {"=", "!=", "<>", ">", ">=", "<", "<=", "AND", "OR", "NOT", "a"}

SelectOptions == {NoneStr, Some("*"), Some("name"), Some("name, age"), Some("$top=1&x")}
TopOptions == {NoneStr, Some("5"), Some("0")}
FilterOptions == {NoneStr, Some("age > 18"), Some("a = '&$top=1'"), Some("*")}

OdataCalls ==
    {[select |-> sel, filter |-> f, top |-> top, tokens |-> <<>>] :
        sel \in SelectOptions, f \in FilterOptions, top \in TopOptions}
    \cup {[select |-> NoneStr, filter |-> Some(join(tokens, " ")), top |-> NoneStr,
           tokens |-> tokens] :
            tokens \in SeqsOfLen(FilterTokens, 1, MaxTokens)}

\* a QueryPhrases value as a caller constructs it
InitOdata ==
    /\ op = "QueryPhrases::odata"
    /\ in \in OdataCalls
    /\ out = [processed |-> Ok(""),
              phrases |-> Ok([select |-> in.select, filter |-> in.filter, top |-> in.top])]
    /\ pc = "compiled"

NextOdata == Odata

SpecOdata == InitOdata /\ [][NextOdata]_vars

(***************************************************************************)
(* Properties of QueryPhrases::query and QueryPhrases::odata               *)
(***************************************************************************)
QueryDone == op = "QueryPhrases::query" /\ pc \in {"compiled", "rendered"}

\* the digits at the start of s
RECURSIVE LeadingDigits(_)
LeadingDigits(s) ==
    IF Len(s) > 0 /\ IndexIn(Digits, SubSeq(s, 1, 1)) # 0
    THEN SubSeq(s, 1, 1) \o LeadingDigits(SubSeq(s, 2, Len(s)))
    ELSE ""

\* the statement with every placeholder $i, read as '$' and all the digits
\* that follow it, replaced by the literal of parameter i when 1 <= i <= n
RECURSIVE PlaceholdersReplaced(_, _)
PlaceholdersReplaced(text, params) ==
    IF Len(text) = 0 THEN ""
    ELSE LET digits == LeadingDigits(SubSeq(text, 2, Len(text)))
             rest == SubSeq(text, 2 + Len(digits), Len(text))
             supplied == /\ Len(digits) \in 1..3
                         /\ DigitsValue(digits, 0) \in 1..Len(params)
         IN IF SubSeq(text, 1, 1) = "$" /\ supplied
            THEN ParamLiteral(params[DigitsValue(digits, 0)])
                 \o PlaceholdersReplaced(rest, params)
            ELSE SubSeq(text, 1, 1) \o PlaceholdersReplaced(SubSeq(text, 2, Len(text)), params)

\* C6: in a statement whose placeholders all refer to supplied parameters,
\* every placeholder $i is replaced by the literal of parameter i, for any
\* number of parameters.
C6_PlaceholdersReplaced ==
    (QueryDone /\ out.processed.ok /\ in.maxph <= Len(in.params)) =>
        out.processed.v = PlaceholdersReplaced(in.query, in.params)

SameLetter(a, b) ==
    \/ a = b
    \/ IndexIn(LowerLetters, a) # 0 /\ IndexIn(LowerLetters, a) = IndexIn(UpperLetters, b)
    \/ IndexIn(UpperLetters, a) # 0 /\ IndexIn(UpperLetters, a) = IndexIn(LowerLetters, b)

\* pat occurs in s, in any letter case
ContainsAnyCase(s, pat) ==
    \E i \in 0..(Len(s) - Len(pat)) :
        \A j \in 1..Len(pat) : SameLetter(SubSeq(s, i + j, i + j), SubSeq(pat, j, j))

\* C7: a statement whose text contains JOIN or ORDER BY, in any letter case
\* and anywhere, does not compile, whatever the parameters.
C7_UnsupportedClauseFails ==
    (QueryDone /\ (ContainsAnyCase(in.query, "JOIN") \/ ContainsAnyCase(in.query, "ORDER BY")))
        => ~out.phrases.ok

\* a statement with a mixed-case Order By, and no JOIN, was rejected
C7_Witness ==
    /\ QueryDone
    /\ contains(in.query, "Order By")
    /\ ~ContainsAnyCase(in.query, "JOIN")
    /\ ~out.phrases.ok
    /\ out.phrases.msg = "ORDER BY clauses are not supported"

OdataToken(t) ==
    IF t = "=" THEN "eq"
    ELSE IF t \in {"!=", "<>"} THEN "ne"
    ELSE IF t = ">" THEN "gt"
    ELSE IF t = ">=" THEN "ge"
    ELSE IF t = "<" THEN "lt"
    ELSE IF t = "<=" THEN "le"
    ELSE IF t = "AND" THEN "and"
    ELSE IF t = "OR" THEN "or"
    ELSE IF t = "NOT" THEN "not"
    ELSE t

\* C8: every token of the filter that is an SQL operator is rendered as its
\* OData operator, wherever it stands, and every other token is unchanged.
C8_OperatorTokensReplaced ==
    (op = "QueryPhrases::odata" /\ pc = "rendered" /\ in.tokens # <<>>) =>
        out.odata = "$filter=" \o encode(join([i \in 1..Len(in.tokens) |->
                                                  OdataToken(in.tokens[i])], " "))

CountOcc(s, pat) == Cardinality({i \in 0..(Len(s) - Len(pat)) : MatchAt(s, pat, i)})

\* C9: odata emits $select exactly for a select list other than "*", $filter
\* exactly for a filter, $top exactly for a row limit, each at most once, in
\* this order and joined by '&'; nothing at all when none is present.
C9_ClausesInOrder ==
    pc = "rendered" =>
        LET self == out.phrases.v
            o == out.odata
            hasSelect == self.select.some /\ self.select.v # "*"
            hasFilter == self.filter.some
            hasTop == self.top.some
            n == (IF hasSelect THEN 1 ELSE 0) + (IF hasFilter THEN 1 ELSE 0)
                 + (IF hasTop THEN 1 ELSE 0)
        IN /\ CountOcc(o, "$select=") = IF hasSelect THEN 1 ELSE 0
           /\ CountOcc(o, "$filter=") = IF hasFilter THEN 1 ELSE 0
           /\ CountOcc(o, "$top=") = IF hasTop THEN 1 ELSE 0
           /\ CountOcc(o, "&") = IF n = 0 THEN 0 ELSE n - 1
           /\ hasSelect => find(o, "$select=") = 0
           /\ hasFilter => find(o, "$filter=") = IF hasSelect THEN find(o, "&") + 1 ELSE 0
           /\ hasTop => find(o, "$top=") = IF n = 1 THEN 0 ELSE rfind(o, "&") + 1
           /\ (n = 0) <=> (o = "")

\* all three clauses rendered, the select list and the filter holding the
\* text of a clause themselves
C9_Witness ==
    /\ op = "QueryPhrases::odata" /\ pc = "rendered"
    /\ in.select = Some("$top=1&x")
    /\ in.filter = Some("a = '&$top=1'")
    /\ in.top = Some("5")
    /\ out.odata = "$select=%24top%3D1%26x&$filter=a%20eq%20%27%26%24top%3D1%27&$top=5"

IsSpecExample ==
    /\ op = "QueryPhrases::query"
    /\ in.query = "SELECT TOP 5 name FROM t WHERE age > $1"
    /\ in.params = <<Int32("18")>>

\* C10 (as claimed): the example compiles to top 5 and filter "age > 18" and
\* renders as "$filter=age%20gt%2018&$top=5"
C10_ExampleRendering ==
    (IsSpecExample /\ QueryDone) =>
        /\ out.phrases.ok
        /\ out.phrases.v.top = Some("5")
        /\ out.phrases.v.filter = Some("age > 18")
        /\ pc = "rendered" => out.odata = "$filter=age%20gt%2018&$top=5"

\* C10 (amended): the example compiles to top 5 and filter "age > 18" (and
\* select list "name") and renders as
\* "$select=name&$filter=age%20gt%2018&$top=5"
C10_ExampleRenderingWithSelect ==
    (IsSpecExample /\ QueryDone) =>
        /\ out.phrases.ok
        /\ out.phrases.v.top = Some("5")
        /\ out.phrases.v.filter = Some("age > 18")
        /\ out.phrases.v.select = Some("name")
        /\ pc = "rendered" => out.odata = "$select=name&$filter=age%20gt%2018&$top=5"

\* the example was compiled and rendered
C10_Witness ==
    /\ IsSpecExample
    /\ pc = "rendered"
    /\ Len(out.odata) > 0

(***************************************************************************)
(* Properties of entity_to_json and into_param                             *)
(***************************************************************************)
\* entity_to_json has returned a wire object
Marshalled ==
    /\ op = "entity_to_json" /\ pc \in {"marshalled", "done"}
    /\ out.json.ok /\ out.json.v.some

\* field i is the only field of the entity with its name
UniqueName(i) ==
    \A j \in 1..Len(in.entity) : in.entity[j].name = in.entity[i].name => j = i

\* C11: a name whose fields are all absent has neither a value key nor a
\* type key in the wire object, and no value of the wire object is null.
C11_NoNullEmitted ==
    Marshalled =>
        LET obj == out.json.v.v.items
        IN /\ \A i \in 1..Len(in.entity) :
                 (\A j \in 1..Len(in.entity) :
                     in.entity[j].name = in.entity[i].name => ~in.entity[j].value.some)
                 => /\ in.entity[i].name \notin DOMAIN obj
                    /\ (in.entity[i].name \o "@odata.type") \notin DOMAIN obj
           /\ \A k \in DOMAIN obj : obj[k].kind # "null"

\* the type tag the wire format requires for a variant, "" for none
RequiredTag(tag) ==
    IF tag = "Binary" THEN "Edm.Binary"
    ELSE IF tag \in {"Int64", "Uint32", "Uint64"} THEN "Edm.Int64"
    ELSE IF tag = "Float" THEN "Edm.Double"
    ELSE IF tag \in {"Date", "Time", "Timestamp"} THEN "Edm.DateTime"
    ELSE ""

\* C12: a present field (the only one of its name) has a type key exactly
\* when its variant is Binary, Int64, Uint32, Uint64, Float, Date, Time or
\* Timestamp, holding Edm.Binary, Edm.Int64, Edm.Double or Edm.DateTime; a
\* Boolean, Int32, Double or Str field has none.
C12_TypeKeyWhenNotInferable ==
    Marshalled =>
        LET obj == out.json.v.v.items
        IN \A i \in 1..Len(in.entity) :
              (in.entity[i].value.some /\ UniqueName(i)) =>
                  LET type_key == in.entity[i].name \o "@odata.type"
                      required == RequiredTag(in.entity[i].value.tag)
                  IN IF required = "" THEN type_key \notin DOMAIN obj
                     ELSE type_key \in DOMAIN obj /\ obj[type_key] = JString(required)

\* a Float with its Edm.Double key beside an Int32 without a type key
C12_Witness ==
    /\ Marshalled
    /\ Len(in.entity) = 2
    /\ in.entity[1] = Field("RowKey", Float(3))
    /\ in.entity[2] = Field("Age", Int32("30"))
    /\ DOMAIN out.json.v.v.items = {"RowKey", "RowKey@odata.type", "Age"}

IsPresentUint64(value) == value.tag = "Uint64" /\ value.some

FitsInt64(n) == NumLeq(n, "9223372036854775807")

\* C13: a present Uint64 is marshalled, by entity_to_json as the same
\* integer tagged Edm.Int64 and by into_param as the same Int64, exactly when
\* it is at most 2^63 - 1; above that both return an error (and
\* entity_to_json no wire object).
C13_Uint64Conversion ==
    /\ (op = "entity_to_json" /\ pc # "ready") =>
          \A i \in 1..Len(in.entity) :
              IsPresentUint64(in.entity[i].value) =>
                  LET n == in.entity[i].value.n
                      name == in.entity[i].name
                  IN /\ ~FitsInt64(n) => ~out.json.ok
                     /\ (FitsInt64(n) /\ Len(in.entity) = 1) =>
                           /\ out.json.ok /\ out.json.v.some
                           /\ out.json.v.v.items[name] = JInt(n)
                           /\ out.json.v.v.items[name \o "@odata.type"] = JString("Edm.Int64")
    /\ (op = "into_param" /\ pc = "done" /\ IsPresentUint64(in.value)) =>
          /\ out.param.ok <=> FitsInt64(in.value.n)
          /\ out.param.ok =>
                /\ out.param.v.tag = "Int64"
                /\ out.param.v.some
                /\ out.param.v.n = in.value.n

\* the greatest Uint64 that fits was marshalled
C13_Witness ==
    /\ Marshalled
    /\ in.entity = <<Field("Name", Uint64("9223372036854775807"))>>
    /\ out.json.v.v.items["Name"] = JInt("9223372036854775807")

(***************************************************************************)
(* Properties of parse                                                     *)
(***************************************************************************)
Parsed == op = "parse" /\ pc = "done"

\* the elements of the "value" array of the body, none if there is no array
WireEntries ==
    IF /\ in.body.kind = "object"
       /\ "value" \in DOMAIN in.body.items
       /\ in.body.items["value"].kind = "array"
    THEN in.body.items["value"].items
    ELSE <<>>

\* the keys of a wire object that are user fields
UserKeys(obj) == {k \in DOMAIN obj : ~Reserved(k) /\ ~ends_with(k, "@odata.type")}

\* the sibling type tag of key k, "" if there is none (or it is no string)
TagOf(obj, k) ==
    LET type_key == k \o "@odata.type"
    IN IF type_key \in DOMAIN obj /\ obj[type_key].kind = "string"
       THEN obj[type_key].s ELSE ""

VariantOfTag(tag) ==
    IF tag = "Edm.Binary" THEN "Binary"
    ELSE IF tag = "Edm.Boolean" THEN "Boolean"
    ELSE IF tag = "Edm.DateTime" THEN "Timestamp"
    ELSE IF tag = "Edm.Double" THEN "Double"
    ELSE IF tag = "Edm.Int32" THEN "Int32"
    ELSE IF tag = "Edm.Int64" THEN "Int64"
    ELSE "Str"

VariantOfShape(value) ==
    IF value.kind = "bool" THEN "Boolean"
    ELSE IF value.kind = "float" THEN "Double"
    ELSE IF value.kind = "int" THEN "Int32"
    ELSE "Str"

\* the positions of the fields named k in a row
FieldsNamed(row, k) == {j \in 1..Len(row.fields) : row.fields[j].name = k}

FitsInt32(n) == NumLeq("-2147483648", n) /\ NumLeq(n, "2147483647")

\* the object elements of the body
ObjectEntries == {i \in 1..Len(WireEntries) : WireEntries[i].kind = "object"}

SomeFieldUntagged ==
    \E i \in ObjectEntries : \E k \in UserKeys(WireEntries[i].items) :
        (k \o "@odata.type") \notin DOMAIN WireEntries[i].items

OnlyUntaggedStrings ==
    \A i \in ObjectEntries : \A k \in UserKeys(WireEntries[i].items) :
        /\ (k \o "@odata.type") \notin DOMAIN WireEntries[i].items
        /\ WireEntries[i].items[k].kind = "string"

C16_SystemKeysSkipped ==
    (Parsed /\ out.rows.ok) =>
        \A i \in 1..Len(out.rows.v) :
            LET row == out.rows.v[i]
                keys == IF i \in ObjectEntries THEN UserKeys(WireEntries[i].items) ELSE {}
            IN /\ \A j \in 1..Len(row.fields) :
                     /\ ~Reserved(row.fields[j].name)
                     /\ ~ends_with(row.fields[j].name, "@odata.type")
               /\ \A k \in keys : Cardinality(FieldsNamed(row, k)) = 1
               /\ Len(row.fields) = Cardinality(keys)

\* an element with every kind of system key and one tagged user field
C16_Witness ==
    /\ Parsed /\ out.rows.ok
    /\ Len(WireEntries) = 1
    /\ DOMAIN WireEntries[1].items
          = {"odata.etag", "PartitionKey", "RowKey", "Timestamp", "Name", "Name@odata.type"}
    /\ Len(out.rows.v[1].fields) = 1
    /\ out.rows.v[1].fields[1].name = "Name"

\* C17: a successful parse returns one Row per element of the "value" array,
\* in array order, and the index of the Row of an element with a string
\* RowKey is that string.
C17_OneRowPerElement ==
    (Parsed /\ out.rows.ok) =>
        /\ Len(out.rows.v) = Len(WireEntries)
        /\ \A i \in ObjectEntries :
              ("RowKey" \in DOMAIN WireEntries[i].items
               /\ WireEntries[i].items["RowKey"].kind = "string")
                  => out.rows.v[i].index = WireEntries[i].items["RowKey"].s

\* two elements gave two rows, in the order of the array
C17_Witness ==
    /\ Parsed /\ out.rows.ok
    /\ Len(WireEntries) = 2
    /\ Len(out.rows.v) = 2
    /\ out.rows.v[1].index = "r1"
    /\ out.rows.v[2].index = "r2"

\* C18: an integer resolved as Edm.Int32, by its tag or by inference, gives
\* an Int32 field of the same number if it fits 32 bits; if it does not, the
\* whole parse fails and returns no rows.
C18_Int32RangeChecked ==
    Parsed =>
        \A i \in ObjectEntries : \A k \in UserKeys(WireEntries[i].items) :
            LET obj == WireEntries[i].items
            IN (obj[k].kind = "int" /\ TagOf(obj, k) \in {"", "Edm.Int32"}) =>
                  IF FitsInt32(obj[k].n)
                  THEN out.rows.ok =>
                          \E j \in 1..Len(out.rows.v[i].fields) :
                              out.rows.v[i].fields[j] = Field(k, Int32(obj[k].n))
                  ELSE ~out.rows.ok

\* the JSON shape of value is not the one the type tag stands for: a string
\* for Binary, DateTime, String and Guid, a boolean for Boolean, a number for
\* Double, an integer for Int32 and Int64
ShapeMismatch(value, tag) ==
    IF tag \in {"Edm.Binary", "Edm.DateTime", "Edm.String", "Edm.Guid"}
    THEN value.kind # "string"
    ELSE IF tag = "Edm.Boolean" THEN value.kind # "bool"
    ELSE IF tag = "Edm.Double" THEN value.kind \notin {"int", "float"}
    ELSE value.kind # "int"

RecognisedTags ==
    {"Edm.Binary", "Edm.Boolean", "Edm.DateTime", "Edm.Double", "Edm.String", "Edm.Guid",
     "Edm.Int32", "Edm.Int64"}

\* C27: a user field with a recognised type tag and a value of another JSON
\* shape (null included) does not make parse fail, and its row holds exactly
\* one field of that name, of the variant of the tag, with an absent value.
C27_MismatchGivesAbsent ==
    Parsed =>
        \A i \in ObjectEntries : \A k \in UserKeys(WireEntries[i].items) :
            (/\ TagOf(WireEntries[i].items, k) \in RecognisedTags
             /\ ShapeMismatch(WireEntries[i].items[k], TagOf(WireEntries[i].items, k)))
              => /\ out.rows.ok
                 /\ \E j \in FieldsNamed(out.rows.v[i], k) :
                       /\ FieldsNamed(out.rows.v[i], k) = {j}
                       /\ out.rows.v[i].fields[j].value.tag
                             = VariantOfTag(TagOf(WireEntries[i].items, k))
                       /\ ~out.rows.v[i].fields[j].value.some

\* a string tagged Edm.Int32 in the second element of the array
C27_Witness ==
    /\ Parsed /\ out.rows.ok
    /\ Len(WireEntries) = 2
    /\ WireEntries[2].kind = "object"
    /\ "Name" \in DOMAIN WireEntries[2].items
    /\ WireEntries[2].items["Name"].kind = "string"
    /\ TagOf(WireEntries[2].items, "Name") = "Edm.Int32"
    /\ out.rows.v[2].fields = <<[name |-> "Name", value |-> None("Int32")]>>

(***************************************************************************)
(* Properties of auth_header                                               *)
(***************************************************************************)
\* the text after "SharedKeyLite <account>:" of a header
SignatureOf(header, account) ==
    SubSeq(header, Len("SharedKeyLite " \o account \o ":") + 1, Len(header))

\* C19: two calls with the same account, key, timestamp and path return the
\* same result; a successful result is "SharedKeyLite <account>:<signature>",
\* and two calls with the same key, timestamp and path give the same
\* signature, whatever the accounts.
C19_HeaderDeterministic ==
    (op = "auth_header" /\ pc = "done") =>
        /\ in.first = in.second => out.first = out.second
        /\ out.first.ok =>
              /\ starts_with(out.first.v, "SharedKeyLite " \o in.first.account \o ":")
              /\ Len(SignatureOf(out.first.v, in.first.account)) > 0
        /\ (/\ in.first.key = in.second.key
            /\ in.first.date = in.second.date
            /\ in.first.path = in.second.path)
              => /\ out.first.ok = out.second.ok
                 /\ out.first.ok =>
                       SignatureOf(out.first.v, in.first.account)
                           = SignatureOf(out.second.v, in.second.account)

\* two accounts with the same key, timestamp and path: two headers with one
\* signature
C19_Witness ==
    /\ op = "auth_header" /\ pc = "done"
    /\ in.first.account # in.second.account
    /\ in.first.key = "SGVsbG8=" /\ in.second.key = "SGVsbG8="
    /\ in.first.date = in.second.date
    /\ in.first.path = in.second.path
    /\ out.first.ok /\ out.second.ok
    /\ out.first.v # out.second.v
    /\ SignatureOf(out.first.v, "acct") = SignatureOf(out.second.v, "other")

(***************************************************************************)
(* Properties of AzTableConnection::query                                  *)
(***************************************************************************)
\* the Authorization header of the connection for a timestamp
SignedAt(date) ==
    "SharedKeyLite " \o in.name \o ":"
        \o EncodedHmac(decode_vec(in.key).v,
                       date \o "\n" \o "/" \o in.name \o "/" \o in.table \o "()")

\* C20: the Authorization header of every request is the signature over the
\* timestamp of its x-ms-date header, which is the time at which its call was
\* made; a call issues one request at most, and two calls made in different
\* seconds carry different timestamps and signatures.
C20_SignatureBindsTimestamp ==
    op = "AzTableConnection::query" =>
        \A k \in 1..Len(out.requests) :
            /\ out.requests[k].authorization = SignedAt(out.requests[k].x_ms_date)
            /\ out.requests[k].x_ms_date
                  = UtcNowFormatted(out.calls[out.requests[k].call].called_at)
            /\ \A j \in 1..Len(out.requests) :
                  /\ out.requests[j].call = out.requests[k].call => j = k
                  /\ (out.calls[out.requests[j].call].called_at \div 2
                          # out.calls[out.requests[k].call].called_at \div 2)
                        => /\ out.requests[j].x_ms_date # out.requests[k].x_ms_date
                           /\ out.requests[j].authorization # out.requests[k].authorization

\* two requests on the wire, the second from a call made a second later
C20_Witness ==
    /\ op = "AzTableConnection::query"
    /\ Len(out.requests) = 2
    /\ out.requests[1].x_ms_date = "Fri, 30 Jan 2026 12:00:00 GMT"
    /\ out.requests[2].x_ms_date = "Fri, 30 Jan 2026 12:00:01 GMT"
    /\ out.requests[1].authorization # out.requests[2].authorization
    /\ out.calls[2].stage = "done" /\ out.calls[2].result.ok

(***************************************************************************)
(* Properties of the entity of a compiled write statement                  *)
(***************************************************************************)
\* the fields that a list of bindings (name, placeholder number) gives
\* with the parameters of the call
BoundFields(bindings) ==
    [i \in 1..Len(bindings) |->
        [name |-> bindings[i].name, value |-> in.params[bindings[i].n]]]

\* C24: the entity of a compiled INSERT has one field per listed column, in
\* column order, key columns included, each with the parameter of its
\* placeholder; that of a compiled UPDATE has one field per SET pair, in
\* order; that of a compiled DELETE is empty.
C24_EntityInStatementOrder ==
    (ExecDone /\ InFamily /\ out.ok) =>
        /\ in.kind = "insert" => out.v.entity = BoundFields(in.keyfields)
        /\ in.kind = "update" => out.v.entity = BoundFields(in.setfields)
        /\ in.kind = "delete" => out.v.entity = <<>>

\* a compiled INSERT of three columns whose second column, Name, is bound
\* to $3, and whose first is RowKey
C24_Witness ==
    /\ ExecDone /\ in.kind = "insert" /\ out.ok
    /\ Len(out.v.entity) = 3
    /\ in.keyfields[2].n = 3
    /\ out.v.entity[1].name = "RowKey"
    /\ out.v.entity[2] = [name |-> "Name", value |-> Int32("30")]

\* C25: a compiled statement has given each key field and each entity
\* field the parameter at the 1-based position of its placeholder, and a
\* statement in which some placeholder $N has N above the number of
\* parameters does not compile.
C25_PlaceholderInRange ==
    ExecDone =>
        /\ (\E N \in 1..9 : contains(in.query, Placeholder(N)) /\ N > Len(in.params))
              => ~out.ok
        /\ (InFamily /\ out.ok) =>
              /\ out.v.partition = in.params[FirstBound("PartitionKey")].s
              /\ out.v.row = in.params[FirstBound("RowKey")].s
              /\ in.kind = "insert" =>
                    \A i \in 1..Len(out.v.entity) :
                        out.v.entity[i].value = in.params[in.keyfields[i].n]
              /\ in.kind = "update" =>
                    \A i \in 1..Len(out.v.entity) :
                        out.v.entity[i].value = in.params[in.setfields[i].n]

\* C26: no two fields of the entity of a compiled statement have the same
\* name.
C26_EntityNamesUnique ==
    (ExecDone /\ out.ok) =>
        \A i, j \in 1..Len(out.v.entity) :
            out.v.entity[i].name = out.v.entity[j].name => i = j

\* C28: ExecPhrase::parse returns a compiled statement or an error for
\* every statement and parameter list; it never panics.
C28_ParseNeverPanics == ExecDone => ~out.panic

(***************************************************************************)
(* Properties of the TOP clause                                            *)
(***************************************************************************)
\* the statement starts with the tokens SELECT and TOP, in any letter case
StartsWithSelectTop(tokens) ==
    /\ Len(tokens) >= 2
    /\ to_uppercase(tokens[1]) = "SELECT"
    /\ to_uppercase(tokens[2]) = "TOP"

\* C23: when TOP follows SELECT, the next token must be an unsigned integer:
\* if it is, a compiled query has that integer as its row limit; if it is
\* missing or anything else, the query fails.
C23_TopNeedsInteger ==
    (QueryDone /\ StartsWithSelectTop(split_whitespace(in.query))) =>
        IF Len(split_whitespace(in.query)) >= 3 /\ IsDigits(split_whitespace(in.query)[3])
        THEN out.phrases.ok =>
                /\ out.phrases.v.top.some
                /\ out.phrases.v.top.v = StripZeros(split_whitespace(in.query)[3])
        ELSE ~out.phrases.ok

(***************************************************************************)
(* One statement compiled twice, the second time with the letter case of   *)
(* some of its keywords changed.                                           *)
(***************************************************************************)
to_lowercase_char(c) ==
    LET i == IndexIn(UpperLetters, c)
    IN IF i = 0 THEN c ELSE SubSeq(LowerLetters, i, i)

RECURSIVE to_lowercase(_)
to_lowercase(s) ==
    IF Len(s) = 0 THEN ""
    ELSE to_lowercase_char(SubSeq(s, 1, 1)) \o to_lowercase(SubSeq(s, 2, Len(s)))

\* a keyword in lower case ("where") or with its first letter only in upper
\* case ("Where")
Recased(word, style) ==
    IF style = "lower" THEN to_lowercase(word)
    ELSE SubSeq(word, 1, 1) \o to_lowercase(SubSeq(word, 2, Len(word)))

\* the statements, token by token; kw tells the positions of the keywords
KeywordStatements ==
    { [compiler |-> "query",
       tokens |-> <<"SELECT", "TOP", "5", "name", "FROM", "t", "WHERE", "a", "=", "$1",
                    "AND", "NOT", "b", "=", "$2", "OR", "c", "=", "3">>,
       kw |-> {1, 2, 5, 7, 11, 12, 16},
       params |-> <<Int32("18"), Str("Alice")>>],
      [compiler |-> "exec",
       tokens |-> <<"INSERT", "INTO", "t", "(PartitionKey,", "RowKey)", "VALUES",
                    "($1,", "$2)">>,
       kw |-> {1, 6},
       params |-> <<Str("p1"), Str("r1")>>],
      [compiler |-> "exec",
       tokens |-> <<"UPDATE", "t", "SET", "Name", "=", "$3", "WHERE", "PartitionKey", "=",
                    "$1", "AND", "RowKey", "=", "$2">>,
       kw |-> {1, 3, 7, 11},
       params |-> <<Str("p1"), Str("r1"), Int32("30")>>],
      [compiler |-> "exec",
       tokens |-> <<"DELETE", "FROM", "t", "WHERE", "PartitionKey", "=", "$1", "AND",
                    "RowKey", "=", "$2">>,
       kw |-> {1, 2, 4, 8},
       params |-> <<Str("p1"), Str("r1")>>] }

\* the statement with the keywords at the positions of changed recased
StatementText(tokens, changed, style) ==
    join([i \in 1..Len(tokens) |->
             IF i \in changed THEN Recased(tokens[i], style) ELSE tokens[i]], " ")

KeywordCalls ==
    UNION {{[compiler |-> st.compiler, params |-> st.params,
             words |-> {st.tokens[i] : i \in changed},
             base |-> StatementText(st.tokens, {}, "lower"),
             variant |-> StatementText(st.tokens, changed, style)] :
               changed \in SUBSET st.kw \ {{}}, style \in {"lower", "capital"}} :
           st \in KeywordStatements}

\* the rendered OData string of a compiled read
Rendered(phrases) == IF ~phrases.ok THEN phrases ELSE Ok(odata(phrases.v))

\* what the compiler of the call makes of a statement
CompiledBy(compiler, statement, params) ==
    IF compiler = "query" THEN Rendered(query(statement, params))
    ELSE parse_exec(statement, params)

InitKeywords ==
    /\ op = "keyword case"
    /\ in \in KeywordCalls
    /\ out = <<>>
    /\ pc = "ready"

\* the statement as written with upper-case keywords
CompileBase ==
    /\ op = "keyword case"
    /\ pc = "ready"
    /\ out' = [base |-> CompiledBy(in.compiler, in.base, in.params)]
    /\ pc' = "base"
    /\ UNCHANGED <<op, in>>

\* the same statement with the case of some keywords changed
CompileVariant ==
    /\ op = "keyword case"
    /\ pc = "base"
    /\ out' = [base |-> out.base,
               variant |-> CompiledBy(in.compiler, in.variant, in.params)]
    /\ pc' = "done"
    /\ UNCHANGED <<op, in>>

NextKeywords == CompileBase \/ CompileVariant

SpecKeywords == InitKeywords /\ [][NextKeywords]_vars

\* C21: changing only the letter case of keywords changes neither whether
\* the statement compiles nor the result (the rendered OData string of a
\* read; action, partition, row and entity of a write).
C21_KeywordCaseIgnored ==
    (op = "keyword case" /\ pc = "done") =>
        /\ out.base.ok = out.variant.ok
        /\ out.base.ok => out.base.v = out.variant.v

(***************************************************************************)
(* QueryPhrases::query on statements with one or two placeholders and      *)
(* parameters of every variant: the literals written for them.             *)
(***************************************************************************)
LiteralTags ==
    {"Int32", "Int64", "Uint32", "Uint64", "Float", "Double", "Str", "Boolean", "Date",
     "Time", "Timestamp", "Binary"}

\* a parameter of every variant, present and absent
LiteralSamples ==
    { Int32("18"), Int32(I32_MIN), Int64(I64_MAX), Int64("-5"), Uint32(U32_MAX),
      Uint64(U64_MAX), Float(3), Float(-1), Float(NonFinite.inf), Double(4),
      Double(NonFinite.nan), Double(NonFinite.neg_inf), Str(""), Str("Alice"),
      Str("John O'Brien"), Str("''"), Boolean(TRUE), Boolean(FALSE), Date("2026-01-29"),
      Time("12:00:00"), Timestamp("2026-01-30T12:00:00Z"), Binary(<<1, 2, 3>>) }
    \cup {None(tag) : tag \in LiteralTags}

\* string values with spaces, operators, keywords and placeholder text
StringSamples ==
    { "Alice", "John O'Brien", "JOIN", "a  b", " x", "x = y", "x AND y", "a ORDER b",
      "to JOIN us", "$2", "$1", "cost $2 now", "$3" }

OneParamQuery == "SELECT * FROM t WHERE a = $1"
TwoParamQuery == "SELECT name FROM t WHERE a = $1 AND b = $2"

LiteralCalls ==
    {[query |-> OneParamQuery, params |-> <<p>>, maxph |-> 1] : p \in LiteralSamples}
    \cup {[query |-> OneParamQuery, params |-> <<Str(v)>>, maxph |-> 1] :
             v \in StringSamples}
    \cup {[query |-> q, params |-> <<p, Binary(<<1, 2, 3>>)>>, maxph |-> 1] :
             q \in {OneParamQuery, "SELECT * FROM t"}, p \in {Int32("18"), Str("Alice")}}
    \cup {[query |-> TwoParamQuery, params |-> <<Str(v), p>>, maxph |-> 2] :
             v \in StringSamples, p \in {Str("Bob"), Int32("18"), None("Str")}}

InitLiteral ==
    /\ op = "QueryPhrases::query"
    /\ in \in LiteralCalls
    /\ out = <<>>
    /\ pc = "ready"

SpecLiteral == InitLiteral /\ [][NextQuery]_vars

\* s is a decimal numeral: an optional '-', digits, and optionally a point
\* followed by digits
IsDecimalText(s) ==
    LET body == IF Len(s) > 0 /\ SubSeq(s, 1, 1) = "-" THEN SubSeq(s, 2, Len(s)) ELSE s
        whole == LeadingDigits(body)
        rest == SubSeq(body, Len(whole) + 1, Len(body))
    IN /\ Len(whole) > 0
       /\ \/ rest = ""
          \/ /\ Len(rest) > 1
             /\ SubSeq(rest, 1, 1) = "."
             /\ LeadingDigits(SubSeq(rest, 2, Len(rest))) = SubSeq(rest, 2, Len(rest))

\* the decimal text of a number of halves
HalvesText(f) ==
    (IF f < 0 THEN "-" ELSE "") \o NatToString((IF f < 0 THEN 0 - f ELSE f) \div 2)
        \o (IF f % 2 = 1 THEN ".5" ELSE "")

\* text is the literal the claim gives to the (non-Binary) parameter
IsClaimedLiteral(text, param) ==
    IF ~param.some THEN text = "NULL"
    ELSE IF param.tag \in {"Int32", "Int64", "Uint32", "Uint64"}
    THEN text = param.n /\ IsDecimalText(text)
    ELSE IF param.tag \in {"Float", "Double"}
    THEN IsDecimalText(text) /\ (is_finite(param.f) => text = HalvesText(param.f))
    ELSE IF param.tag = "Str" THEN text = "'" \o replace(param.s, "'", "''") \o "'"
    ELSE IF param.tag = "Boolean" THEN text = (IF param.b THEN "true" ELSE "false")
    ELSE text = "'" \o param.s \o "'"

\* a call of the one-placeholder statement with one parameter
OneParamDone == QueryDone /\ in.query = OneParamQuery /\ Len(in.params) = 1

\* C22: the one placeholder of a statement is replaced by the literal of
\* its parameter's variant: decimal text for a present number, quoted text
\* with doubled quotes for a string, quoted text for a date, time or
\* timestamp, true or false for a boolean, NULL for an absent value; and a
\* call with a Binary among its parameters fails.
C22_LiteralByVariant ==
    /\ (OneParamDone /\ in.params[1].tag # "Binary") =>
          /\ out.processed.ok
          /\ starts_with(out.processed.v, "SELECT * FROM t WHERE a = ")
          /\ IsClaimedLiteral(SubSeq(out.processed.v, Len("SELECT * FROM t WHERE a = ") + 1,
                                     Len(out.processed.v)),
                              in.params[1])
    /\ (QueryDone /\ \E i \in 1..Len(in.params) : in.params[i].tag = "Binary")
          => ~out.phrases.ok

\* C29: a string parameter whose value contains the text $2 appears in the
\* filter as its quoted literal, with that text unchanged, whatever the
\* second parameter is.
C29_SinglePassSubstitution ==
    (QueryDone /\ in.query = TwoParamQuery /\ contains(in.params[1].s, "$2")) =>
        /\ out.phrases.ok
        /\ out.phrases.v.filter.some
        /\ contains(out.phrases.v.filter.v, "'" \o in.params[1].s \o "'")

\* C30: a string parameter of the one-placeholder statement reaches the
\* rendered $filter intact: the filter is the percent-encoding of the
\* condition on the quoted literal of the value, quotes doubled (the
\* encoding loses nothing, so the decoded literal is the value).
C30_StringReachesFilter ==
    (op = "QueryPhrases::query" /\ pc = "rendered" /\ in.query = OneParamQuery
     /\ in.params[1].tag = "Str" /\ in.params[1].some) =>
        out.odata = "$filter=" \o encode("a eq '" \o replace(in.params[1].s, "'", "''") \o "'")

(***************************************************************************)
(* The whole model: a call of any entry point.                             *)
(***************************************************************************)
Init ==
    \/ InitExec \/ InitCodec \/ InitParse \/ InitAuth \/ InitConn \/ InitQuery \/ InitOdata
    \/ InitKeywords \/ InitLiteral

Next ==
    \/ ParseExec
    \/ EntityToJson \/ ParseMarshalled \/ IntoParam
    \/ Parse
    \/ AuthFirst \/ AuthSecond
    \/ Tick \/ QueryCall \/ QuerySend \/ QueryReceive
    \/ Query \/ Odata
    \/ CompileBase \/ CompileVariant

Spec == Init /\ [][Next]_vars
====
